---- MODULE Spec2Model ----
(***************************************************************************)
(* Model of model_catalogs: the file name decoder (utils.file2dt), the     *)
(* freshness check of cached records (utils.is_fresh,                      *)
(* utils.get_fresh_parameter) and the per-day file selection               *)
(* (utils.agg_for_date with remove_duplicates and find_nowcast_cycles).    *)
(*                                                                         *)
(* Strings are sequences of one-character strings, so that fnmatch         *)
(* patterns, regular expressions, slices and lexicographic sorting act on  *)
(* characters as they do in the Python source.  A pandas Timestamp is the  *)
(* number of hours since 0001-01-01 00:00 (24 * (proleptic ordinal - 1)),  *)
(* a Timedelta a number of hours.                                          *)
(***************************************************************************)
EXTENDS Integers, Sequences, FiniteSets, TLC

VARIABLES
    mode,        \* which part of the library the behaviour exercises
    pc,          \* position of the call in progress
    file,        \* decoder: the parts the file name was formatted from
    filename,    \* decoder: argument of file2dt
    decoded,     \* decoder: outcome of file2dt
    key,         \* cache: what the record under test is a record of
    now,         \* cache: the clock (hours)
    mtime,       \* cache: path of a record -> its write time, or NoFile
    checked,     \* cache: the last is_fresh call: path, age seen, outcome
    date,        \* selection: argument of agg_for_date
    strings,     \* selection: candidate URLs
    filetype,    \* selection: file type tag
    is_forecast, \* selection: forecast tail wanted
    scene,       \* selection: what the remote directory was built from
    fnames,      \* selection: outcome of agg_for_date
    remote,      \* service: what the remote servers hold and whether they answer
    stored,      \* service: path of a cached record -> its payload
    call,        \* service: arguments of the call in progress
    result       \* service: outcome of the call

vars == <<mode, pc, file, filename, decoded, key, now, mtime, checked,
          date, strings, filetype, is_forecast, scene, fnames,
          remote, stored, call, result>>

decodeVars == <<file, filename, decoded>>
cacheVars == <<key, now, mtime, checked>>
aggVars == <<date, strings, filetype, is_forecast, scene, fnames>>
svcVars == <<remote, stored, call, result>>

----------------------------------------------------------------------------
(* Characters and strings *)

DigitChars == <<"0", "1", "2", "3", "4", "5", "6", "7", "8", "9">>

LowerChars == <<"a", "b", "c", "d", "e", "f", "g", "h", "i", "j", "k", "l", "m",
                "n", "o", "p", "q", "r", "s", "t", "u", "v", "w", "x", "y", "z">>

UpperChars == <<"A", "B", "C", "D", "E", "F", "G", "H", "I", "J", "K", "L", "M",
                "N", "O", "P", "Q", "R", "S", "T", "U", "V", "W", "X", "Y", "Z">>

\* ASCII order of the characters that occur in the modelled names
CharOrder == <<" ", "*", ",", "-", ".", "/">> \o DigitChars \o <<":", "?">>
               \o UpperChars \o <<"_">> \o LowerChars

Dot == <<".">>

IsDigit(c) == \E d \in 1..10 : DigitChars[d] = c

DigitVal(c) == CHOOSE d \in 0..9 : DigitChars[d + 1] = c

Ord(c) == CHOOSE k \in 1..Len(CharOrder) : CharOrder[k] = c

\* int() of a string of digits
RECURSIVE ToInt(_)
ToInt(s) == IF s = <<>> THEN 0
            ELSE 10 * ToInt(SubSeq(s, 1, Len(s) - 1)) + DigitVal(s[Len(s)])

\* zero-padded decimal formatting, as %02d / %03d / %04d
RECURSIVE Pad(_, _)
Pad(n, width) == IF width = 0 THEN <<>>
                 ELSE Pad(n \div 10, width - 1) \o <<DigitChars[(n % 10) + 1]>>

\* Python slice s[a:b] with 0-based non-negative bounds
Slice(s, a, b) == SubSeq(s, a + 1, IF b < Len(s) THEN b ELSE Len(s))

\* s starts with pre at 1-based position i
HasAt(s, pre, i) == /\ i >= 1
                    /\ i + Len(pre) - 1 <= Len(s)
                    /\ SubSeq(s, i, i + Len(pre) - 1) = pre

\* Python: sub in s
Contains(s, sub) == \E i \in 1..(Len(s) + 1) : HasAt(s, sub, i)

\* s and t agree on their first n characters
SamePrefix(s, t, n) == SubSeq(s, 1, n) = SubSeq(t, 1, n)

\* the first position in (lo, hi] at which s and t differ, given that they
\* agree up to lo and not up to hi
RECURSIVE DiffBetween(_, _, _, _)
DiffBetween(s, t, lo, hi) ==
    IF hi = lo + 1 THEN hi
    ELSE LET mid == (lo + hi) \div 2
         IN IF SamePrefix(s, t, mid) THEN DiffBetween(s, t, mid, hi)
            ELSE DiffBetween(s, t, lo, mid)

\* first position at which s and t differ, or one past the shorter
FirstDiff(s, t) ==
    LET n == IF Len(s) < Len(t) THEN Len(s) ELSE Len(t)
    IN IF SamePrefix(s, t, n) THEN n + 1 ELSE DiffBetween(s, t, 0, n)

\* Python: s < t on strings
StrLess(s, t) ==
    LET i == FirstDiff(s, t)
    IN IF i > Len(t) THEN FALSE
       ELSE IF i > Len(s) THEN TRUE
       ELSE Ord(s[i]) < Ord(t[i])

\* str.split(sep) for a one-character separator
RECURSIVE Split(_, _)
Split(s, sep) ==
    IF \A i \in 1..Len(s) : s[i] # sep THEN <<s>>
    ELSE LET i == CHOOSE k \in 1..Len(s) :
                      s[k] = sep /\ \A j \in 1..(k - 1) : s[j] # sep
         IN <<SubSeq(s, 1, i - 1)>> \o Split(SubSeq(s, i + 1, Len(s)), sep)

\* sep.join(parts)
RECURSIVE Join(_, _)
Join(parts, sep) == IF parts = <<>> THEN <<>>
                    ELSE IF Len(parts) = 1 THEN parts[1]
                    ELSE parts[1] \o sep \o Join(Tail(parts), sep)

\* str.replace(old, new): every non-overlapping occurrence, left to right
RECURSIVE Replace(_, _, _)
Replace(s, old, new) ==
    IF ~Contains(s, old) \/ s = <<>> THEN s
    ELSE LET i == CHOOSE k \in 1..Len(s) :
                      HasAt(s, old, k) /\ \A j \in 1..(k - 1) : ~HasAt(s, old, j)
         IN SubSeq(s, 1, i - 1) \o new
                \o Replace(SubSeq(s, i + Len(old), Len(s)), old, new)

----------------------------------------------------------------------------
(* fnmatch *)

\* the characters of s from position i fit the literal-and-"?" segment seg
Fits(s, seg, i) == \A k \in 1..Len(seg) : seg[k] = s[i + k - 1] \/ seg[k] = "?"

\* the literal-and-"?" segment seg of a pattern matches s from position i
SegAt(s, seg, i) ==
    /\ i >= 1
    /\ i + Len(seg) - 1 <= Len(s)
    /\ Fits(s, seg, i)

\* segs[k..] but the last are matched leftmost from position from; the last
\* segment must end the name
RECURSIVE GlobRest(_, _, _, _)
GlobRest(s, segs, k, from) ==
    LET seg == segs[k]
        last == Len(s) - Len(seg) + 1
    IN IF k = Len(segs) THEN last >= from /\ SegAt(s, seg, last)
       ELSE LET hits == {i \in from..last : Fits(s, seg, i)}
            IN /\ hits # {}
               /\ GlobRest(s, segs, k + 1,
                           (CHOOSE i \in hits : \A j \in hits : i <= j) + Len(seg))

\* a name against the segments between the stars of a pattern: they are found
\* in order, the first at the start of the name and the last at its end
MatchSegs(name, segs) ==
    IF Len(segs) = 1 THEN Len(name) = Len(segs[1]) /\ SegAt(name, segs[1], 1)
    ELSE /\ SegAt(name, segs[1], 1)
         /\ GlobRest(name, segs, 2, Len(segs[1]) + 1)

\* fnmatch.fnmatch(name, pat) for patterns of literals, "?" and "*"
FnMatch(name, pat) == MatchSegs(name, Split(pat, "*"))

\* fnmatch.filter(names, pat)
FnFilter(names, pat) ==
    LET segs == Split(pat, "*")
    IN SelectSeq(names, LAMBDA n : MatchSegs(n, segs))

----------------------------------------------------------------------------
(* sorting *)

\* a list built element by element, every element worked out once
List(f) == f \o <<>>

\* F of the value of v, the value found once whatever the uses F makes of it
Bind(v, F(_)) == CHOOSE y \in {F(x) : x \in {v}} : TRUE

\* the stable sort of seq given, for every position, the number of elements
\* that come before the element at that position
Arrange(seq, before) ==
    List([r \in 1..Len(seq) |-> seq[CHOOSE i \in 1..Len(seq) : before[i] = r - 1]])

\* sorted(seq, key=Key) for string keys: an element comes after those of
\* smaller key and, Python's sort being stable, after the earlier ones of
\* equal key
SortedByStr(seq, Key(_)) ==
    LET keys == List([i \in 1..Len(seq) |-> Key(seq[i])])
        before == List([i \in 1..Len(seq) |->
                     Cardinality({j \in 1..Len(seq) :
                         \/ StrLess(keys[j], keys[i])
                         \/ (j < i /\ keys[j] = keys[i])})])
    IN Arrange(seq, before)

\* sorted(seq, key=Key) for integer keys; stable
SortedByInt(seq, Key(_)) ==
    LET keys == List([i \in 1..Len(seq) |-> Key(seq[i])])
        before == List([i \in 1..Len(seq) |->
                     Cardinality({j \in 1..Len(seq) :
                         \/ keys[j] < keys[i]
                         \/ (j < i /\ keys[j] = keys[i])})])
    IN Arrange(seq, before)

\* sorted(seq) of strings
Sorted(seq) == SortedByStr(seq, LAMBDA x : x)

----------------------------------------------------------------------------
(* Calendar: pandas Timestamp and Timedelta in whole hours *)

IsLeap(y) == (y % 4 = 0) /\ ((y % 100 # 0) \/ (y % 400 = 0))

DaysInMonth(y, m) == IF m = 2 THEN (IF IsLeap(y) THEN 29 ELSE 28)
                     ELSE IF m \in {4, 6, 9, 11} THEN 30 ELSE 31

RECURSIVE DaysBeforeMonth(_, _)
DaysBeforeMonth(y, m) == IF m = 1 THEN 0
                         ELSE DaysBeforeMonth(y, m - 1) + DaysInMonth(y, m - 1)

DaysBeforeYear(y) == (y - 1) * 365 + ((y - 1) \div 4) - ((y - 1) \div 100) + ((y - 1) \div 400)

\* pd.Timestamp(year, month, day): midnight of that day, in hours
Midnight(y, m, d) == 24 * (DaysBeforeYear(y) + DaysBeforeMonth(y, m) + d - 1)

\* pd.Timestamp(year, month, day, hour)
Instant(y, m, d, h) == Midnight(y, m, d) + h

----------------------------------------------------------------------------
(* file2dt *)

Ok(shape, times) == [status |-> "ok", shape |-> shape, times |-> times]

Raise(error) == [status |-> "error", error |-> error]

Pending == [status |-> "pending"]

\* filename.split('/')[-1]
Basename(name) == LET parts == Split(name, "/") IN parts[Len(parts)]

\* alternatives of the strptime directive %m at position p, in the order the
\* regular expression tries them: 1[0-2] | 0[1-9] | [1-9]; each <<length, value>>
MonthOpts(s, p) ==
    (IF p + 1 <= Len(s) /\ s[p] = "1" /\ s[p + 1] \in {"0", "1", "2"}
       THEN <<(<<2, 10 + DigitVal(s[p + 1])>>)>> ELSE <<>>)
    \o (IF p + 1 <= Len(s) /\ s[p] = "0" /\ IsDigit(s[p + 1]) /\ s[p + 1] # "0"
       THEN <<(<<2, DigitVal(s[p + 1])>>)>> ELSE <<>>)
    \o (IF p <= Len(s) /\ IsDigit(s[p]) /\ s[p] # "0"
       THEN <<(<<1, DigitVal(s[p])>>)>> ELSE <<>>)

\* alternatives of %d: 3[0-1] | [1-2]\d | 0[1-9] | [1-9] | " "[1-9]
DayOpts(s, p) ==
    (IF p + 1 <= Len(s) /\ s[p] = "3" /\ s[p + 1] \in {"0", "1"}
       THEN <<(<<2, 30 + DigitVal(s[p + 1])>>)>> ELSE <<>>)
    \o (IF p + 1 <= Len(s) /\ s[p] \in {"1", "2"} /\ IsDigit(s[p + 1])
       THEN <<(<<2, 10 * DigitVal(s[p]) + DigitVal(s[p + 1])>>)>> ELSE <<>>)
    \o (IF p + 1 <= Len(s) /\ s[p] = "0" /\ IsDigit(s[p + 1]) /\ s[p + 1] # "0"
       THEN <<(<<2, DigitVal(s[p + 1])>>)>> ELSE <<>>)
    \o (IF p <= Len(s) /\ IsDigit(s[p]) /\ s[p] # "0"
       THEN <<(<<1, DigitVal(s[p])>>)>> ELSE <<>>)
    \o (IF p + 1 <= Len(s) /\ s[p] = " " /\ IsDigit(s[p + 1]) /\ s[p + 1] # "0"
       THEN <<(<<2, DigitVal(s[p + 1])>>)>> ELSE <<>>)

\* the months at p after which a day can be read
MonthsWithDay(s, p) ==
    SelectSeq(MonthOpts(s, p), LAMBDA mo : DayOpts(s, p + mo[1]) # <<>>)

\* the regular expression of "%Y%m%d" matches at position i
DateAt(s, i) == /\ i + 3 <= Len(s)
                /\ \A k \in i..(i + 3) : IsDigit(s[k])
                /\ MonthsWithDay(s, i + 4) # <<>>

\* pd.to_datetime(s, format="%Y%m%d", exact=False): the leftmost match of the
\* format anywhere in s, as midnight of that date; no match, or a day the
\* month does not have, is a ValueError
ToDatetime(s) ==
    IF \A i \in 1..Len(s) : ~DateAt(s, i) THEN Raise("ValueError")
    ELSE LET i == CHOOSE k \in 1..Len(s) :
                      DateAt(s, k) /\ \A j \in 1..(k - 1) : ~DateAt(s, j)
             y == ToInt(SubSeq(s, i, i + 3))
             mo == MonthsWithDay(s, i + 4)[1]
             d == DayOpts(s, i + 4 + mo[1])[1][2]
         IN IF d > DaysInMonth(y, mo[2]) \/ y = 0 THEN Raise("ValueError")
            ELSE Ok("scalar", <<Midnight(y, mo[2], d)>>)

\* re ".t[0-9]{2}z." matches the six characters from position i
CycleAt(s, i) == /\ i + 5 <= Len(s)
                 /\ s[i + 1] = "t"
                 /\ IsDigit(s[i + 2]) /\ IsDigit(s[i + 3])
                 /\ s[i + 4] = "z"

\* re ".[n,f][0-9]{3}." matches the six characters from position i
LeadAt(s, i) == /\ i + 5 <= Len(s)
                /\ s[i + 1] \in {"n", ",", "f"}
                /\ IsDigit(s[i + 2]) /\ IsDigit(s[i + 3]) /\ IsDigit(s[i + 4])

\* the non-overlapping matches of a six-character expression, left to right:
\* starts are the positions where it matches, from is where the scan resumes
RECURSIVE PickMatches(_, _, _)
PickMatches(s, starts, from) ==
    LET rest == {i \in starts : i >= from}
    IN IF rest = {} THEN <<>>
       ELSE LET i == CHOOSE k \in rest : \A j \in rest : k <= j
            IN <<SubSeq(s, i, i + 5)>> \o PickMatches(s, starts, i + 6)

\* re.compile(".t[0-9]{2}z.").findall(s)
FindCycles(s) == PickMatches(s, {i \in 1..Len(s) : CycleAt(s, i)}, 1)

\* re.compile(".[n,f][0-9]{3}.").findall(s)
FindLeads(s) == PickMatches(s, {i \in 1..Len(s) : LeadAt(s, i)}, 1)

Pat_nowcast == <<"*", ".", "n", "o", "w", "c", "a", "s", "t", ".", "*">>
Pat_forecast == <<"*", ".", "f", "o", "r", "e", "c", "a", "s", "t", ".", "*">>
Pat_nlead == <<"*", ".", "n", "?", "?", "?", ".", "*">>
Pat_flead == <<"*", ".", "f", "?", "?", "?", ".", "*">>
Str_lsofs == <<"l", "s", "o", "f", "s">>
Str_loofs == <<"l", "o", "o", "f", "s">>
Str_nyofs == <<"n", "y", "o", "f", "s">>

\* hours subtracted for a nowcast file
NowcastOffset == 6

\* number of time steps in a *.nowcast.* file
NowcastSteps == 6

\* as ForecastSteps, with a default length for the other families
ForecastSteps_Default(name) ==
    IF Contains(name, Str_lsofs) \/ Contains(name, Str_loofs) THEN 60 ELSE 54

\* number of time steps in a *.forecast.* file; unset for other families
ForecastSteps(name) ==
    IF Contains(name, Str_lsofs) \/ Contains(name, Str_loofs) THEN 60
    ELSE IF Contains(name, Str_nyofs) THEN 54
    ELSE 0

\* as LeadHours, without the shift of nowcast files
LeadHours_NoShift(name, cycle, hour) == cycle + hour

\* hours from midnight of a lead-time file: cycle + lead, 6 less for a nowcast
LeadHours(name, cycle, hour) ==
    cycle + hour - (IF FnMatch(name, Pat_nlead) THEN NowcastOffset ELSE 0)

\* the branch of file2dt taken once date and cycle are read
DecodeFamily(name, date0, cycle) ==
    IF FnMatch(name, Pat_nowcast)
      THEN Ok("list", [k \in 1..NowcastSteps |-> date0 + (cycle - (NowcastSteps - k))])
    ELSE IF FnMatch(name, Pat_forecast)
      THEN IF ForecastSteps(name) = 0 THEN Raise("UnboundLocalError")
           ELSE Ok("list", [k \in 1..ForecastSteps(name) |-> date0 + (cycle + 1 + (k - 1))])
    ELSE IF FnMatch(name, Pat_nlead) \/ FnMatch(name, Pat_flead)
      THEN LET found == FindLeads(name)
           IN IF found = <<>> THEN Raise("IndexError")
              ELSE LET hour == ToInt(SubSeq(found[1], 3, 5))
                   IN Ok("scalar", <<date0 + LeadHours(name, cycle, hour)>>)
    ELSE Ok("scalar", <<date0>>)

file2dt(fname) ==
    LET name == Basename(fname)
        parsed == ToDatetime(name)
        found == FindCycles(name)
    IN IF parsed.status = "error" THEN parsed
       ELSE IF found = <<>> THEN Raise("IndexError")
       ELSE DecodeFamily(name, parsed.times[1], ToInt(SubSeq(found[1], 3, 4)))

----------------------------------------------------------------------------
(* agg_for_date *)

\* seq without the first occurrence of x: list.pop(list.index(x))
RemoveFirst(seq, x) ==
    IF \A i \in 1..Len(seq) : seq[i] # x THEN seq
    ELSE LET i == CHOOSE k \in 1..Len(seq) :
                      seq[k] = x /\ \A j \in 1..(k - 1) : seq[j] # x
         IN SubSeq(seq, 1, i - 1) \o SubSeq(seq, i + 1, Len(seq))

RECURSIVE RemoveEach(_, _)
RemoveEach(seq, gone) ==
    IF gone = <<>> THEN seq
    ELSE RemoveEach(RemoveFirst(seq, gone[1]), Tail(gone))

\* as remove_duplicates, removing nothing
remove_duplicates_Keep(filenames, pattern) == filenames

remove_duplicates(filenames, pattern) ==
    RemoveEach(filenames, FnFilter(filenames, pattern))

\* as find_nowcast_cycles, without the sort by timing cycle
find_nowcast_cycles_NameOrder(strs, pattern) == Sorted(FnFilter(strs, pattern))

find_nowcast_cycles(strs, pattern) ==
    LET filenames == Sorted(FnFilter(strs, pattern))
        split == List([i \in 1..Len(filenames) |-> Split(filenames[i], ".")])
        ordered == SortedByStr(split, LAMBDA parts : parts[Len(parts) - 1])
    IN List([i \in 1..Len(ordered) |-> Join(ordered[i], Dot)])

Pat_n000 == <<"*", ".", "n", "0", "0", "0", ".", "*">>
Pat_f000 == <<"*", ".", "f", "0", "0", "0", ".", "*">>
Pat_anycycle == <<".", "t", "?", "?", "z", ".">>
Pat_anynow == <<".", "n", "*", ".">>
Pat_anyfore == <<".", "f", "*", ".">>

\* as DayPattern, matching the files of any day
DayPattern_AnyDay(day, ftype) ==
    <<"*">> \o ftype \o <<"*">> \o Pat_anynow \o <<"?", "?", "?", "?", "?", "?", "?", "?">> \o Pat_anycycle \o <<"*">>

\* date.strftime(f"*{filetype}*.n*.%Y%m%d.t??z.*")
DayPattern(day, ftype) ==
    <<"*">> \o ftype \o <<"*">> \o Pat_anynow \o Pad(day[1], 4) \o Pad(day[2], 2)
      \o Pad(day[3], 2) \o Pat_anycycle \o <<"*">>

\* the seq without repeats, first occurrences kept
Dedupe(seq) ==
    LET firsts == SelectSeq([i \in 1..Len(seq) |-> i],
                            LAMBDA i : \A j \in 1..(i - 1) : seq[j] # seq[i])
    IN List([k \in 1..Len(firsts) |-> seq[firsts[k]]])

\* list.count(x)
Count(seq, x) == Cardinality({i \in 1..Len(seq) : seq[i] = x})

\* strs[lo] .. strs[hi] one after the other
RECURSIVE ConcatRange(_, _, _)
ConcatRange(strs, lo, hi) ==
    IF lo > hi THEN <<>>
    ELSE IF lo = hi THEN strs[lo]
    ELSE ConcatRange(strs, lo, (lo + hi) \div 2)
           \o ConcatRange(strs, ((lo + hi) \div 2) + 1, hi)

\* "".join(strs)
Concat(strs) == ConcatRange(strs, 1, Len(strs))

\* the hours of every timing-cycle token in the candidates
CycleTokens(strs) ==
    LET found == FindCycles(Concat(strs))
    IN List([i \in 1..Len(found) |-> SubSeq(found[i], 3, 4)])

\* as ChooseCycle, the latest cycle whatever its count
ChooseCycle_Latest(subs) ==
    LET times == Sorted(Dedupe(subs))
    IN times[Len(times)]

\* sorted(times, key=subs.count)[-1]: the cycle with the most tokens, the
\* latest of those that tie
ChooseCycle(subs) ==
    LET times == Sorted(Dedupe(subs))
        byCount == SortedByInt(times, LAMBDA t : Count(subs, t))
    IN byCount[Len(byCount)]

\* the condition under which the forecast branch raises its ValueError
SelectionMissing(fnames_cycle, fnames_fore) == Len(fnames_cycle \o fnames_fore) = 0

\* as NowcastBefore, every nowcast file of the day
NowcastBefore_All(fnames_now, first) == fnames_now

\* fnames_now[: fnames_now.index(first)]: the nowcast files of the day that
\* come before the first selected file
NowcastBefore(fnames_now, first) ==
    LET ind == CHOOSE i \in 1..Len(fnames_now) :
                   /\ fnames_now[i] = first
                   /\ \A j \in 1..(i - 1) : fnames_now[j] # first
    IN SubSeq(fnames_now, 1, ind - 1)

\* the is_forecast branch
AggForecast(strs, pattern) ==
    LET subs == CycleTokens(strs)
    IN IF subs = <<>> THEN Raise("IndexError")
       ELSE
         LET cycle == ChooseCycle(subs)
             pattern1 == Replace(pattern, Pat_anycycle, <<".", "t">> \o cycle \o <<"z", ".">>)
             fnames_cycle == Sorted(FnFilter(strs, pattern1))
             pattern2 == Replace(pattern1, Pat_anynow, Pat_anyfore)
             fnames_fore == remove_duplicates(Sorted(FnFilter(strs, pattern2)), Pat_f000)
             combined == fnames_cycle \o fnames_fore
             fnames_now == find_nowcast_cycles(strs, pattern)
         IN IF SelectionMissing(fnames_cycle, fnames_fore)
              THEN Raise("ValueError: Error finding filenames")
            ELSE IF \A i \in 1..Len(fnames_now) : fnames_now[i] # combined[1]
              THEN Raise("ValueError: not in list")
            ELSE Ok("list", remove_duplicates(NowcastBefore(fnames_now, combined[1])
                                                \o combined, Pat_n000))

\* agg_for_date(date, strings, filetype, is_forecast) with the default pattern
agg_for_date(day, strs, ftype, is_fore) ==
    LET pattern == DayPattern(day, ftype)
    IN IF is_fore THEN AggForecast(strs, pattern)
       ELSE Ok("list", remove_duplicates(find_nowcast_cycles(strs, pattern), Pat_n000))

----------------------------------------------------------------------------
(* File names as the NOAA OFS servers publish them *)

Str_nos == <<"n", "o", "s">>
Str_cbofs == <<"c", "b", "o", "f", "s">>
Str_ngofs2 == <<"n", "g", "o", "f", "s", "2">>
Str_fields == <<"f", "i", "e", "l", "d", "s">>
Str_regulargrid == <<"r", "e", "g", "u", "l", "a", "r", "g", "r", "i", "d">>
Str_nc == <<"n", "c">>
UrlPrefix == <<"h", "t", "t", "p", "s", ":", "/", "/", "o", "p", "e", "n", "d", "a", "p", ".", "c", "o", "-", "o", "p", "s", ".", "n", "o", "s", ".", "n", "o", "a", "a", ".", "g", "o", "v", "/", "t", "h", "r", "e", "d", "d", "s", "/", "d", "o", "d", "s", "C", "/", "N", "O", "A", "A", "/", "C", "B", "O", "F", "S", "/", "M", "O", "D", "E", "L", "S", "/", "2", "0", "2", "2", "/", "0", "7", "/">>

\* %Y%m%d
Ymd(y, m, d) == Pad(y, 4) \o Pad(m, 2) \o Pad(d, 2)

\* the family tag of a name: n### / f###, nowcast, forecast, or none at all
Tag(f) == CASE f.shape = "lead" -> Dot \o <<f.kind>> \o Pad(f.lead, 3)
            [] f.shape = "nowcast" -> Dot \o <<"n", "o", "w", "c", "a", "s", "t">>
            [] f.shape = "forecast" -> Dot \o <<"f", "o", "r", "e", "c", "a", "s", "t">>
            [] f.shape = "none" -> <<>>

\* nos.<model>.<filetype>[.<tag>].<YYYYMMDD>.t<HH>z.nc, after an optional path
FormatName(f) ==
    f.path \o Str_nos \o Dot \o f.model \o Dot \o f.ftype \o Tag(f) \o Dot
      \o Ymd(f.y, f.m, f.d) \o Dot \o <<"t">> \o Pad(f.cycle, 2) \o <<"z">> \o Dot \o Str_nc

\* largest lead-time token of the decoded names
MaxLead == 7

Models == {Str_cbofs, Str_lsofs, Str_loofs, Str_nyofs, Str_ngofs2}

Cycles == {0, 3, 6, 12, 18, 21}

Days == {<<2022, 7, 1>>, <<2022, 1, 1>>, <<2024, 3, 1>>, <<2022, 12, 31>>}

Shapes == {<<"lead", "n">>, <<"lead", "f">>, <<"nowcast", "n">>,
           <<"forecast", "f">>, <<"none", "n">>}

FileSpecs ==
    {[path |-> p, model |-> mo, ftype |-> Str_fields, shape |-> sh[1], kind |-> sh[2],
      lead |-> (IF sh[1] = "lead" THEN l ELSE 0), y |-> dy[1], m |-> dy[2], d |-> dy[3],
      cycle |-> c] :
        p \in {<<>>, UrlPrefix}, mo \in Models, sh \in Shapes, l \in 0..MaxLead,
        dy \in Days, c \in Cycles}

NoFileSpec == [shape |-> "idle"]

----------------------------------------------------------------------------
(* Cached records and their freshness *)

\* write time of a record that does not exist
NoFile == -1

Str_start == <<"s", "t", "a", "r", "t">>
Str_end == <<"e", "n", "d">>
Str_catrefs == <<"c", "a", "t", "r", "e", "f", "s">>
Str_forecast == <<"f", "o", "r", "e", "c", "a", "s", "t">>
Str_nowcast == <<"n", "o", "w", "c", "a", "s", "t">>
Str_hindcast == <<"h", "i", "n", "d", "c", "a", "s", "t">>
Str_CBOFS == <<"C", "B", "O", "F", "S">>
Str_LEOFS_REGULARGRID == <<"L", "E", "O", "F", "S", "-", "R", "E", "G", "U", "L", "A", "R", "G", "R", "I", "D">>
Underscore == <<"_">>

\* the directories of the cache
CACHE_PATH_AVAILABILITY == "availability"
CACHE_PATH_FILE_LOCS == "file_locs"
CACHE_PATH_COMPILED == "compiled"

Path(parent, name) == [parent |-> parent, name |-> name]

FILE_PATH_START(cat_name, timing) ==
    Path(CACHE_PATH_AVAILABILITY,
         cat_name \o Underscore \o timing \o <<"_", "s", "t", "a", "r", "t", "_", "d", "a", "t", "e", "t", "i", "m", "e", ".", "y", "a", "m", "l">>)

FILE_PATH_END(cat_name, timing) ==
    Path(CACHE_PATH_AVAILABILITY,
         cat_name \o Underscore \o timing \o <<"_", "e", "n", "d", "_", "d", "a", "t", "e", "t", "i", "m", "e", ".", "y", "a", "m", "l">>)

FILE_PATH_CATREFS(cat_name, timing) ==
    Path(CACHE_PATH_AVAILABILITY,
         cat_name \o Underscore \o timing \o <<"_", "c", "a", "t", "r", "e", "f", "s", ".", "y", "a", "m", "l">>)

FILE_PATH_AGG_FILE_LOCS(cat_name, timing, day, is_fore) ==
    Path(CACHE_PATH_FILE_LOCS,
         cat_name \o Underscore \o timing \o Underscore
           \o Pad(day[1], 4) \o <<"-">> \o Pad(day[2], 2) \o <<"-">> \o Pad(day[3], 2)
           \o <<"_", "i", "s", "-", "f", "o", "r", "e", "c", "a", "s", "t", "_">>
           \o (IF is_fore THEN <<"T", "r", "u", "e">> ELSE <<"F", "a", "l", "s", "e">>)
           \o <<".", "y", "a", "m", "l">>)

FILE_PATH_COMPILED(cat_name) ==
    Path(CACHE_PATH_COMPILED, cat_name \o <<".", "y", "a", "m", "l">>)

CatNames == {Str_CBOFS, Str_LEOFS_REGULARGRID}

Timings == {Str_forecast, Str_nowcast, Str_hindcast}

Categories == {"start", "end", "catrefs", "file_locs", "compiled"}

\* the time-to-live table, in hours: FRESH[timing][category], FRESH["compiled"]
FRESH(timing, category) ==
    IF category = "compiled" THEN 2
    ELSE IF timing = Str_hindcast
      THEN CASE category = "start" -> 4 [] category = "end" -> 3
             [] category = "catrefs" -> 2 [] category = "file_locs" -> 1
    ELSE IF timing = Str_nowcast
      THEN CASE category = "start" -> 2 [] category = "end" -> 4
             [] category = "catrefs" -> 1 [] category = "file_locs" -> 3
    ELSE CASE category = "start" -> 3 [] category = "end" -> 1
           [] category = "catrefs" -> 4 [] category = "file_locs" -> 2

\* a record of one category, and the path it is kept under
RecordKeys ==
    {[category |-> c, cat_name |-> n, timing |-> t, day |-> <<2022, 7, 1>>, is_fore |-> f] :
        c \in Categories \ {"compiled"}, n \in CatNames, t \in Timings, f \in BOOLEAN}
    \cup {[category |-> "compiled", cat_name |-> n, timing |-> <<>>, day |-> <<>>,
           is_fore |-> FALSE] : n \in CatNames}

Keys == {k \in RecordKeys : k.is_fore => k.category = "file_locs"}

PathOf(k) ==
    CASE k.category = "start" -> FILE_PATH_START(k.cat_name, k.timing)
      [] k.category = "end" -> FILE_PATH_END(k.cat_name, k.timing)
      [] k.category = "catrefs" -> FILE_PATH_CATREFS(k.cat_name, k.timing)
      [] k.category = "file_locs" ->
            FILE_PATH_AGG_FILE_LOCS(k.cat_name, k.timing, k.day, k.is_fore)
      [] k.category = "compiled" -> FILE_PATH_COMPILED(k.cat_name)

Paths == {PathOf(k) : k \in Keys}

\* as FreshEntry, an end-datetime record looked up under "start"
FreshEntry_EndAsStart(path) ==
    IF path.parent = CACHE_PATH_AVAILABILITY
      THEN LET timing == Split(path.name, "_")[2]
           IN IF Contains(path.name, Str_start) \/ Contains(path.name, Str_end)
                THEN <<timing, "start">>
              ELSE IF Contains(path.name, Str_catrefs) THEN <<timing, "catrefs">>
              ELSE <<>>
    ELSE IF path.parent = CACHE_PATH_FILE_LOCS
      THEN <<Split(path.name, "_")[2], "file_locs">>
    ELSE IF path.parent = CACHE_PATH_COMPILED THEN <<<<>>, "compiled">>
    ELSE <<>>

\* the entry of FRESH that get_fresh_parameter reads for a path: <<timing,
\* category>>, or <<>> when no branch assigns mu
FreshEntry(path) ==
    IF path.parent = CACHE_PATH_AVAILABILITY
      THEN LET timing == Split(path.name, "_")[2]
           IN IF Contains(path.name, Str_start) THEN <<timing, "start">>
              ELSE IF Contains(path.name, Str_end) THEN <<timing, "end">>
              ELSE IF Contains(path.name, Str_catrefs) THEN <<timing, "catrefs">>
              ELSE <<>>
    ELSE IF path.parent = CACHE_PATH_FILE_LOCS
      THEN <<Split(path.name, "_")[2], "file_locs">>
    ELSE IF path.parent = CACHE_PATH_COMPILED THEN <<<<>>, "compiled">>
    ELSE <<>>

\* mu, in hours; UnboundLocalError when no branch assigned it
get_fresh_parameter(path) ==
    IF FreshEntry(path) = <<>> THEN Raise("UnboundLocalError")
    ELSE Ok("scalar", <<FRESH(FreshEntry(path)[1], FreshEntry(path)[2])>>)

\* as IsFreshAt, a record exactly as old as its time-to-live still fresh
IsFreshAt_Inclusive(path, clock, written) ==
    IF written = NoFile THEN FALSE
    ELSE LET mu == get_fresh_parameter(path)
         IN IF mu.status = "error" THEN mu.error
            ELSE clock - written <= mu.times[1]

\* is_fresh for a record written at `written` (NoFile: stat() raises
\* FileNotFoundError), called when the clock shows `clock`
IsFreshAt(path, clock, written) ==
    IF written = NoFile THEN FALSE
    ELSE LET mu == get_fresh_parameter(path)
         IN IF mu.status = "error" THEN mu.error
            ELSE clock - written < mu.times[1]

is_fresh(path) == IsFreshAt(path, now, mtime[path])

----------------------------------------------------------------------------
(* Idle values of the parts a behaviour does not exercise *)

DecodeIdle == /\ file = NoFileSpec
              /\ filename = <<>>
              /\ decoded = Pending

CacheIdle == /\ key = <<>>
             /\ now = 0
             /\ mtime = <<>>
             /\ checked = <<>>

AggIdle == /\ date = <<>>
           /\ strings = <<>>
           /\ filetype = <<>>
           /\ is_forecast = FALSE
           /\ scene = <<>>
           /\ fnames = Pending

ServiceIdle == /\ remote = <<>>
               /\ stored = <<>>
               /\ call = <<>>
               /\ result = Pending

----------------------------------------------------------------------------
(* The decoder called on one published name *)

InitDecode == /\ mode = "decode"
              /\ pc = "call"
              /\ file \in FileSpecs
              /\ filename = FormatName(file)
              /\ decoded = Pending
              /\ CacheIdle
              /\ AggIdle
              /\ ServiceIdle

Decode == /\ mode = "decode"
          /\ pc = "call"
          /\ decoded' = file2dt(filename)
          /\ pc' = "done"
          /\ UNCHANGED <<mode, file, filename>>
          /\ UNCHANGED svcVars
          /\ UNCHANGED cacheVars
          /\ UNCHANGED aggVars

NextDecode == Decode

SpecDecode == InitDecode /\ [][NextDecode]_vars

\* midnight of the date the name was formatted from
FileDay == Midnight(file.y, file.m, file.d)

Returned == mode = "decode" /\ pc = "done"

\* C1: a name with date, cycle and 3-digit lead-time token decodes to
\* date + (cycle + lead) hours for an f### file and to date + (cycle + lead - 6)
\* hours for an n### file, possibly on another day; the n003 file of
\* 2022-07-01 t00z decodes to 2022-06-30 21:00
C1_LeadTimeDecoded ==
    (Returned /\ file.shape = "lead") =>
        /\ decoded = Ok("scalar", <<FileDay + file.cycle + file.lead
                                      - (IF file.kind = "n" THEN 6 ELSE 0)>>)
        /\ (file.model = Str_cbofs /\ file.kind = "n" /\ file.lead = 3
              /\ <<file.y, file.m, file.d>> = <<2022, 7, 1>> /\ file.cycle = 0)
           => decoded.times = <<Instant(2022, 6, 30, 21)>>

C1_Witness ==
    /\ Returned /\ file.shape = "lead" /\ file.kind = "n" /\ file.lead = 3
    /\ file.model = Str_cbofs /\ file.cycle = 0 /\ file.path = <<>>
    /\ <<file.y, file.m, file.d>> = <<2022, 7, 1>>
    /\ decoded.status = "ok"
    /\ decoded.times[1] < FileDay

\* C2: a name of none of the families (nowcast, forecast, n###/f###) makes
\* file2dt fail; no timestamp is returned for it
C2_MalformedNameFails ==
    (Returned /\ file.shape = "none") => decoded.status = "error"

\* C3: a *.forecast.* name decodes to N consecutive hourly instants from
\* date + (cycle + 1) hours, N = 60 for lsofs and loofs and 54 for nyofs;
\* for any other family decoding fails
C3_ForecastFileDecoded ==
    (Returned /\ file.shape = "forecast") =>
        LET n == IF file.model \in {Str_lsofs, Str_loofs} THEN 60
                 ELSE IF file.model = Str_nyofs THEN 54 ELSE 0
        IN IF n = 0 THEN decoded.status = "error"
           ELSE decoded = Ok("list", [k \in 1..n |-> FileDay + file.cycle + k])

C3_Witness ==
    /\ Returned /\ file.shape = "forecast" /\ file.model = Str_nyofs
    /\ decoded.status = "ok"
    /\ Len(decoded.times) = 54
    /\ decoded.times[1] = FileDay + file.cycle + 1

----------------------------------------------------------------------------
(* One cached record: written, aged by the clock, checked for freshness *)

\* last hour of the clock
MaxNow == 5

InitCache == /\ mode = "cache"
             /\ pc = "idle"
             /\ key \in Keys
             /\ now = 0
             /\ mtime = [p \in Paths |-> NoFile]
             /\ checked = <<>>
             /\ DecodeIdle
             /\ AggIdle
             /\ ServiceIdle

\* open(path, "w") and yaml.dump: the record is created or overwritten
CacheWrite == /\ mode = "cache"
              /\ mtime' = [mtime EXCEPT ![PathOf(key)] = now]
              /\ UNCHANGED <<mode, pc, key, now, checked>>
              /\ UNCHANGED decodeVars
              /\ UNCHANGED svcVars
              /\ UNCHANGED aggVars

\* an hour passes
Tick == /\ mode = "cache"
        /\ now < MaxNow
        /\ now' = now + 1
        /\ UNCHANGED <<mode, pc, key, mtime, checked>>
        /\ UNCHANGED decodeVars
        /\ UNCHANGED svcVars
        /\ UNCHANGED aggVars

\* a call of is_fresh on the record
CheckFresh ==
    /\ mode = "cache"
    /\ checked' = [path |-> PathOf(key),
                   at |-> now,
                   written |-> mtime[PathOf(key)],
                   entry |-> IF mtime[PathOf(key)] = NoFile THEN <<>>
                             ELSE FreshEntry(PathOf(key)),
                   mu |-> IF mtime[PathOf(key)] = NoFile THEN Pending
                          ELSE get_fresh_parameter(PathOf(key)),
                   result |-> is_fresh(PathOf(key))]
    /\ UNCHANGED <<mode, pc, key, now, mtime>>
    /\ UNCHANGED decodeVars
    /\ UNCHANGED svcVars
    /\ UNCHANGED aggVars

NextCache == CacheWrite \/ Tick \/ CheckFresh

SpecCache == InitCache /\ [][NextCache]_vars

Checked == mode = "cache" /\ checked # <<>>

\* C4: is_fresh returns false, without raising, while no record exists; true
\* when called at the time the record was written; false whenever now minus
\* the write time is not less than the time-to-live of the record's kind
C4_FreshnessWindow ==
    Checked =>
        /\ checked.result \in BOOLEAN
        /\ checked.written = NoFile => checked.result = FALSE
        /\ checked.written = checked.at => checked.result = TRUE
        /\ (checked.written # NoFile
              /\ checked.at - checked.written >= FRESH(key.timing, key.category))
           => checked.result = FALSE

C4_Witness ==
    /\ Checked
    /\ checked.written # NoFile
    /\ checked.at - checked.written = FRESH(key.timing, key.category)
    /\ checked.result = FALSE

\* C5: the time-to-live applied to a record is that of the record's own
\* category and timing: FRESH[timing][start | end | catrefs | file_locs] or
\* FRESH[compiled], never that of another category
C5_OwnCategoryTTL ==
    (Checked /\ checked.written # NoFile) =>
        /\ checked.entry = <<key.timing, key.category>>
        /\ checked.mu = Ok("scalar", <<FRESH(key.timing, key.category)>>)

C5_Witness ==
    /\ Checked
    /\ checked.written # NoFile
    /\ key.category = "end"
    /\ key.cat_name = Str_LEOFS_REGULARGRID
    /\ checked.entry = <<Str_hindcast, "end">>

----------------------------------------------------------------------------
(* One call of agg_for_date on the listing of a remote directory *)

\* the timing cycles of a day
CycleHours == <<0, 6, 12, 18>>

\* most forecast files of one cycle in a listing, f000 apart
MaxFore == 2

\* files of an unfinished nowcast cycle
PartialLeads == 3

Day1 == <<2022, 7, 1>>
Day2 == <<2022, 7, 2>>

Scenes ==
    {[nowCycles |-> nc, partial |-> (nc # 0 /\ pa), n000 |-> (nc # 0 /\ n0), foreCycle |-> fc,
      foreLeads |-> (IF fc = 0 THEN 0 ELSE fl), f000 |-> (fc # 0 /\ f0), extra |-> od] :
        nc \in 0..Len(CycleHours), pa \in BOOLEAN, n0 \in BOOLEAN,
        fc \in 0..Len(CycleHours), fl \in 1..MaxFore, f0 \in BOOLEAN,
        od \in BOOLEAN}

OfsFile(day, kind, lead, cycle) ==
    [path |-> UrlPrefix, model |-> Str_cbofs, ftype |-> Str_fields, shape |-> "lead",
     kind |-> kind, lead |-> lead, y |-> day[1], m |-> day[2], d |-> day[3],
     cycle |-> cycle]

\* the files of one cycle: leads first..last of one kind
CycleFiles(day, kind, first, last, cycle) ==
    List([i \in 1..(last - first + 1) |-> OfsFile(day, kind, first + i - 1, cycle)])

RECURSIVE NowcastFiles(_, _, _, _)
NowcastFiles(day, k, sc, upto) ==
    IF k > upto THEN <<>>
    ELSE CycleFiles(day, "n", IF sc.n000 THEN 0 ELSE 1,
                    IF sc.partial /\ k = sc.nowCycles THEN PartialLeads ELSE NowcastOffset,
                    CycleHours[k])
         \o NowcastFiles(day, k + 1, sc, upto)

\* what the directory holds, in the order files landed: the nowcast cycles of
\* the day, the forecast files of one cycle and, with extra, the nowcast files
\* of the next day and regulargrid files of the day
Landed(sc) ==
    NowcastFiles(Day1, 1, sc, sc.nowCycles)
    \o (IF sc.foreCycle = 0 THEN <<>>
        ELSE CycleFiles(Day1, "f", IF sc.f000 THEN 0 ELSE 1, sc.foreLeads,
                        CycleHours[sc.foreCycle]))
    \o (IF sc.extra
          THEN NowcastFiles(Day2, 1, [sc EXCEPT !.partial = FALSE], 2)
               \o [i \in 1..NowcastOffset |->
                      [OfsFile(Day1, "n", i, CycleHours[1]) EXCEPT !.ftype = Str_regulargrid]]
        ELSE <<>>)

Reverse(seq) == List([i \in 1..Len(seq) |-> seq[Len(seq) + 1 - i]])

\* the candidate URLs handed to agg_for_date, the newest listed first
Listing(sc) ==
    LET landed == Landed(sc)
        urls == List([i \in 1..Len(landed) |-> FormatName(landed[i])])
    IN Reverse(urls)

InitAgg == /\ mode = "agg"
           /\ pc = "call"
           /\ scene \in Scenes
           /\ date = Day1
           /\ strings = Listing(scene)
           /\ filetype = Str_fields
           /\ is_forecast \in BOOLEAN
           /\ fnames = Pending
           /\ DecodeIdle
           /\ CacheIdle
           /\ ServiceIdle

Aggregate == /\ mode = "agg"
             /\ pc = "call"
             /\ fnames' = agg_for_date(date, strings, filetype, is_forecast)
             /\ pc' = "selected"
             /\ UNCHANGED <<mode, date, strings, filetype, is_forecast, scene>>
             /\ UNCHANGED decodeVars
             /\ UNCHANGED svcVars
             /\ UNCHANGED cacheVars

\* the selected files decoded, one after the other
DecodeSelected ==
    /\ mode = "agg"
    /\ pc = "selected"
    /\ fnames.status = "ok"
    /\ decoded' = [i \in 1..Len(fnames.times) |-> file2dt(fnames.times[i])]
    /\ pc' = "decoded"
    /\ UNCHANGED <<mode, file, filename>>
    /\ UNCHANGED svcVars
    /\ UNCHANGED cacheVars
    /\ UNCHANGED aggVars

NextAgg == Aggregate \/ DecodeSelected

SpecAgg == InitAgg /\ [][NextAgg]_vars

\* the list a call returned
Files(r) == r.times

Selected == mode = "agg" /\ pc \in {"selected", "decoded"} /\ fnames.status = "ok"

Names(files) == List([i \in 1..Len(files) |-> FormatName(files[i])])

\* the day's nowcast files of cycles from..upto as the server named them,
\* n000 files apart, by cycle and within a cycle by lead time
DayNowcast(from, upto) ==
    LET last == IF upto < scene.nowCycles THEN upto ELSE scene.nowCycles
    IN IF from > last THEN <<>>
       ELSE Names(NowcastFiles(Day1, from, [scene EXCEPT !.n000 = FALSE], last))

\* the day's forecast files of cycle k, the f000 file apart, by lead time
DayForecast(k) ==
    IF k # scene.foreCycle THEN <<>>
    ELSE Names(CycleFiles(Day1, "f", 1, scene.foreLeads, CycleHours[k]))

\* C6: whatever the candidates and the forecast-tail flag, the returned list
\* holds no *.n000.* URL
C6_NoN000 ==
    Selected =>
        \A i \in 1..Len(Files(fnames)) : ~Contains(Files(fnames)[i], <<".", "n", "0", "0", "0", ".">>)

C6_Witness ==
    /\ Selected
    /\ scene.n000 /\ scene.nowCycles >= 2
    /\ \E i \in 1..Len(strings) : Contains(strings[i], <<".", "n", "0", "0", "0", ".">>)
    /\ Len(Files(fnames)) > 0

\* C7: without the forecast tail the result is exactly the candidates of the
\* day pattern *<file_type>*.n*.<YYYYMMDD>.t??z.*, n000 files apart, by cycle
\* hour ascending and within a cycle by lead-time token ascending
C7_NowcastDayInCycleOrder ==
    (mode = "agg" /\ pc # "call" /\ ~is_forecast) =>
        fnames = Ok("list", DayNowcast(1, Len(CycleHours)))

C7_Witness ==
    /\ Selected /\ ~is_forecast
    /\ scene.nowCycles = Len(CycleHours) /\ scene.extra
    /\ scene.foreCycle > 0
    /\ Len(Files(fnames)) = Len(CycleHours) * NowcastOffset

\* C8: with the forecast tail the result is, in this order, the day's nowcast
\* files of the cycles before the selected one in cycle order, the selected
\* cycle's nowcast files, and the selected cycle's forecast files by lead
\* time; it holds no *.f000.* file and no nowcast file of a later cycle
C8_TailAfterEarlierCycles ==
    (Selected /\ is_forecast) =>
        /\ \E k \in 1..Len(CycleHours) :
              Files(fnames) = DayNowcast(1, k - 1) \o DayNowcast(k, k) \o DayForecast(k)
        /\ \A i \in 1..Len(Files(fnames)) :
              ~Contains(Files(fnames)[i], <<".", "f", "0", "0", "0", ".">>)

C8_Witness ==
    /\ Selected /\ is_forecast
    /\ scene.nowCycles = Len(CycleHours) /\ scene.foreCycle = 3
    /\ scene.f000 /\ scene.n000
    /\ Len(Files(fnames)) = 3 * NowcastOffset + scene.foreLeads

\* the timing cycle agg_for_date selects among the candidates
SelectedCycle == ChooseCycle(CycleTokens(strings))

\* the candidates hold no forecast file of the selected cycle for the day
NoForecastOfSelectedCycle ==
    \/ CycleTokens(strings) = <<>>
    \/ scene.foreCycle = 0
    \/ /\ scene.foreCycle > 0
       /\ Pad(CycleHours[scene.foreCycle], 2) # SelectedCycle

\* C9: with the forecast tail wanted and no forecast file of the selected
\* cycle for the day among the candidates, agg_for_date raises; it returns no
\* list, empty or nowcast-only
C9_NoForecastRaises ==
    (mode = "agg" /\ pc # "call" /\ is_forecast /\ NoForecastOfSelectedCycle) =>
        fnames.status = "error"

\* the listing is one full nowcast day and one forecast cycle
FullDayAndForecast ==
    /\ scene.nowCycles = Len(CycleHours)
    /\ ~scene.partial
    /\ scene.foreCycle > 0
    /\ ~scene.extra

\* C10: for one full nowcast day plus one forecast cycle, the files returned
\* with the forecast tail decode to strictly increasing instants, none twice,
\* no two consecutive ones more than an hour apart
C10_HourlyTimeline ==
    (mode = "agg" /\ pc = "decoded" /\ is_forecast /\ FullDayAndForecast) =>
        /\ Len(decoded) = Len(Files(fnames))
        /\ \A i \in 1..Len(decoded) : decoded[i].status = "ok" /\ decoded[i].shape = "scalar"
        /\ \A i \in 1..(Len(decoded) - 1) :
              /\ decoded[i].times[1] < decoded[i + 1].times[1]
              /\ decoded[i + 1].times[1] - decoded[i].times[1] <= 1

C10_Witness ==
    /\ mode = "agg" /\ pc = "decoded" /\ is_forecast /\ FullDayAndForecast
    /\ scene.foreCycle = 2 /\ scene.n000 /\ scene.f000
    /\ Len(decoded) = 2 * NowcastOffset + scene.foreLeads
    /\ decoded[1].times[1] = Instant(2022, 6, 30, 19)
    /\ decoded[Len(decoded)].times[1] = Instant(2022, 7, 1, 6 + scene.foreLeads)

----------------------------------------------------------------------------
(* Timestamps as text *)

\* the years the modelled instants fall in
ModelYears == 2020..2025

\* the date <<year, month, day>> of an instant
DateOf(t) ==
    LET days == t \div 24
        y == CHOOSE yy \in ModelYears :
                 DaysBeforeYear(yy) <= days /\ days < DaysBeforeYear(yy + 1)
        m == CHOOSE mm \in 1..12 :
                 /\ DaysBeforeYear(y) + DaysBeforeMonth(y, mm) <= days
                 /\ days < DaysBeforeYear(y) + DaysBeforeMonth(y, mm) + DaysInMonth(y, mm)
    IN <<y, m, days - DaysBeforeYear(y) - DaysBeforeMonth(y, m) + 1>>

\* str(timestamp.date()): YYYY-MM-DD
StrDate(day) == Pad(day[1], 4) \o <<"-">> \o Pad(day[2], 2) \o <<"-">> \o Pad(day[3], 2)

\* str(timestamp) of a whole hour: YYYY-MM-DD HH:00:00
StrTimestamp(t) ==
    StrDate(DateOf(t)) \o <<" ">> \o Pad(t % 24, 2) \o <<":", "0", "0", ":", "0", "0">>

\* str(numpy.datetime64) of a whole hour: YYYY-MM-DDTHH:00:00.000000000
StrDatetime64(t) ==
    StrDate(DateOf(t)) \o <<"T">> \o Pad(t % 24, 2)
      \o <<":", "0", "0", ":", "0", "0", ".", "0", "0", "0", "0", "0", "0", "0", "0", "0">>

\* Python's None
None == <<"None">>

----------------------------------------------------------------------------
(* Remote THREDDS catalogs: find_catrefs, find_filelocs *)

\* a catalog: its catalog references, in catalog order, and its datasets
Node(name, refs, datasets) == [name |-> name, refs |-> refs, datasets |-> datasets]

\* list(node.catalog_refs)
RefNames(node) == List([i \in 1..Len(node.refs) |-> node.refs[i].name])

\* label in node.catalog_refs
HasRef(node, label) == \E i \in 1..Len(node.refs) : node.refs[i].name = label

\* node.catalog_refs[label].follow()
Follow(node, label) ==
    node.refs[CHOOSE i \in 1..Len(node.refs) : node.refs[i].name = label]

\* str.isnumeric() on the characters of the modelled names
IsNumeric(s) == s # <<>> /\ \A i \in 1..Len(s) : IsDigit(s[i])

\* [(catref + (child,)) for catref in catrefs for child in the catalog at catref]
RECURSIVE At(_, _)
At(cat, catref) == IF catref = <<>> THEN cat
                   ELSE At(Follow(cat, Head(catref)), Tail(catref))

Deeper(cat, catrefs) ==
    Concat(List([i \in 1..Len(catrefs) |->
        LET below == RefNames(At(cat, catrefs[i]))
        IN List([j \in 1..Len(below) |-> Append(catrefs[i], below[j])])]))

\* as LevelsBelow, any third level followed
LevelsBelow_Any(cat_ref_test) == Len(cat_ref_test) > 0

\* the test on the first (year, month) catalog for a further level
LevelsBelow(cat_ref_test) == Len(cat_ref_test) > 1

\* find_catrefs(catloc), cat the catalog at catloc
find_catrefs(cat) ==
    LET catrefs_to_check == SelectSeq(RefNames(cat), IsNumeric)
        catrefs == Deeper(cat, List([i \in 1..Len(catrefs_to_check) |-> <<catrefs_to_check[i]>>]))
    IN IF catrefs = <<>> THEN Raise("IndexError")
       ELSE IF LevelsBelow(RefNames(At(cat, catrefs[1])))
         THEN Ok("list", Deeper(cat, catrefs))
       ELSE Ok("list", catrefs)

Str_stations == <<"s", "t", "a", "t", "i", "o", "n", "s">>
Str_vibrioprob == <<"v", "i", "b", "r", "i", "o", "p", "r", "o", "b">>

\* every label of catref names a catalog reference on the way down
RECURSIVE Reaches(_, _)
Reaches(cat, catref) ==
    \/ catref = <<>>
    \/ /\ HasRef(cat, Head(catref))
       /\ Reaches(Follow(cat, Head(catref)), Tail(catref))

\* as KeptDataset, the station files kept
KeptDataset_Stations(dataset, ftype) ==
    ~Contains(dataset, Str_vibrioprob) /\ Contains(dataset, ftype)

\* the datasets find_filelocs keeps
KeptDataset(dataset, ftype) ==
    /\ ~Contains(dataset, Str_stations)
    /\ ~Contains(dataset, Str_vibrioprob)
    /\ Contains(dataset, ftype)

\* find_filelocs(catref, catloc, ftype), cat the catalog at catloc
find_filelocs(catref, cat, ftype) ==
    IF Len(catref) \notin {2, 3} THEN Raise("UnboundLocalError")
    ELSE IF ~Reaches(cat, catref) THEN Raise("KeyError")
    ELSE LET datasets == At(cat, catref).datasets
             kept == SelectSeq(datasets, LAMBDA ds : KeptDataset(ds.name, ftype))
         IN Ok("list", List([i \in 1..Len(kept) |-> kept[i].url]))

----------------------------------------------------------------------------
(* filedates2df: the decoded instants of a list of files *)

\* the rows one file gives: one per instant file2dt decodes from its name
FileRows(fileloc, dt) ==
    List([k \in 1..Len(dt.times) |-> [t |-> dt.times[k], filenames |-> fileloc]])

\* rows in index order, the first kept of those on the same instant
FirstOfEach(rows) ==
    LET firsts == SelectSeq(List([i \in 1..Len(rows) |-> i]),
                            LAMBDA i : i = 1 \/ rows[i].t # rows[i - 1].t)
    IN List([k \in 1..Len(firsts) |-> rows[firsts[k]]])

\* filedates2df(filelocs): instants decoded from the names, sorted, none twice
filedates2df(filelocs) ==
    Bind(List([i \in 1..Len(filelocs) |-> file2dt(filelocs[i])]), LAMBDA dts :
      LET bad == {i \in 1..Len(dts) : dts[i].status = "error"}
      IN IF bad # {} THEN dts[CHOOSE i \in bad : \A j \in bad : i <= j]
         ELSE Bind(Concat(List([i \in 1..Len(dts) |-> FileRows(filelocs[i], dts[i])])),
                LAMBDA rows :
                  Bind(SortedByInt(rows, LAMBDA r : r.t), LAMBDA sorted :
                    Ok("frame", FirstOfEach(sorted)))))

----------------------------------------------------------------------------
(* Cached records as YAML documents *)

\* yaml.dump of a mapping with one entry: the tags of the document tell
\* which of its nodes are not plain YAML; a Python tuple is such a node
yaml_dump(entry, value, tuples) ==
    [entry |-> entry, value |-> value,
     tags |-> IF tuples /\ value # <<>> THEN {"python/tuple"} ELSE {}]

\* yaml.safe_load(stream)[entry]: the safe loader constructs plain YAML only,
\* and gives None for an empty stream, which has no entries
yaml_safe_load(doc, entry) ==
    IF doc.tags # {} THEN Raise("ConstructorError")
    ELSE IF doc.entry = "none" THEN Raise("TypeError")
    ELSE IF doc.entry # entry THEN Raise("KeyError")
    ELSE [status |-> "ok", value |-> doc.value]

\* what open(path, "w") and yaml.dump leave under path
Written(path, doc) == [path |-> path, doc |-> doc]

----------------------------------------------------------------------------
(* find_datetimes, find_availability_source, find_availability *)

\* sorted(catrefs) of tuples of labels: by the first label that differs
SortedRefs(catrefs) == SortedByStr(catrefs, LAMBDA ref : Join(ref, <<" ">>))

\* the outcome of a step that may write records before it ends or fails
Done(value, writes) == [status |-> "ok", value |-> value, writes |-> writes]

Failed(error, writes) == [status |-> "error", error |-> error, writes |-> writes]

\* as CatrefsOf, the record opened for writing before the server is asked
CatrefsOf_OpenFirst(source, override) ==
    LET path == FILE_PATH_CATREFS(source.cat_name, source.name)
    IN IF ~override /\ is_fresh(path)
         THEN LET got == yaml_safe_load(stored[path], "catrefs")
              IN IF got.status = "error" THEN Failed(got.error, <<>>)
                 ELSE Done(got.value, <<>>)
       ELSE Bind(find_catrefs(remote.tree), LAMBDA found :
              IF found.status = "error"
                THEN Failed(found.error,
                            <<Written(path, [entry |-> "none", value |-> <<>>, tags |-> {}])>>)
              ELSE Bind(SortedRefs(found.times), LAMBDA catrefs :
                     Done(catrefs, <<Written(path, yaml_dump("catrefs", catrefs, TRUE))>>)))

\* the catalog references of a source: read from their record when it is
\* fresh and override is off, found on the server and written otherwise
CatrefsOf(source, override) ==
    LET path == FILE_PATH_CATREFS(source.cat_name, source.name)
    IN IF ~override /\ is_fresh(path)
         THEN LET got == yaml_safe_load(stored[path], "catrefs")
              IN IF got.status = "error" THEN Failed(got.error, <<>>)
                 ELSE Done(got.value, <<>>)
       ELSE Bind(find_catrefs(remote.tree), LAMBDA found :
              IF found.status = "error" THEN Failed(found.error, <<>>)
              ELSE Bind(SortedRefs(found.times), LAMBDA catrefs :
                     Done(catrefs, <<Written(path, yaml_dump("catrefs", catrefs, TRUE))>>)))

\* as FirstListing, the file list of the latest reference
FirstListing_Last(catrefs, i, source) ==
    IF catrefs = <<>> THEN Raise("IndexError")
    ELSE Bind(find_filelocs(catrefs[Len(catrefs)], remote.tree, source.filetype),
           LAMBDA got :
             IF got.status = "error" THEN got
             ELSE IF Len(got.times) = 0 THEN Raise("IndexError")
             ELSE Ok("list", Sorted(got.times)))

\* the loop "while len(filelocs) == 0" from reference i on: the sorted file
\* list of the first reference that has files
RECURSIVE FirstListing(_, _, _)
FirstListing(catrefs, i, source) ==
    IF i > Len(catrefs) THEN Raise("IndexError")
    ELSE Bind(find_filelocs(catrefs[i], remote.tree, source.filetype), LAMBDA got :
           IF got.status = "error" THEN got
           ELSE IF Len(got.times) = 0 THEN FirstListing(catrefs, i + 1, source)
           ELSE Ok("list", Sorted(got.times)))

\* as StartRow, the earliest row whatever the gaps
StartRow_Earliest(rows) == 1

\* the row of the frame the start is read from: the one after the last
\* difference of more than a day between consecutive rows, or the first row
StartRow(rows) ==
    LET jumps == {i \in 2..Len(rows) : rows[i].t - rows[i - 1].t > 24}
    IN IF jumps # {} THEN CHOOSE i \in jumps : \A j \in jumps : j <= i
       ELSE 1

\* the start of an aggregating source
AggStart(source, catrefs) ==
    Bind(FirstListing(catrefs, 1, source), LAMBDA filelocs :
      IF filelocs.status = "error" THEN filelocs
      ELSE Bind(filedates2df(filelocs.times), LAMBDA df :
             IF df.status = "error" THEN df
             ELSE Ok("str", StrTimestamp(df.times[StartRow(df.times)].t))))

\* the end of an aggregating source
AggEnd(source, catrefs) ==
    IF catrefs = <<>> THEN Raise("IndexError")
    ELSE Bind(find_filelocs(catrefs[Len(catrefs)], remote.tree, source.filetype),
           LAMBDA filelocs :
             IF filelocs.status = "error" THEN filelocs
             ELSE Bind(filedates2df(filelocs.times), LAMBDA df :
                    IF df.status = "error" THEN df
                    ELSE IF df.times = <<>> THEN Raise("IndexError")
                    ELSE Ok("str", StrTimestamp(df.times[Len(df.times)].t))))

\* what find_datetimes hands back: the two bounds, whether it warned, and
\* the records it wrote on the way
Found(start, end, warned, writes) ==
    [status |-> "ok", start |-> start, end |-> end, warned |-> warned, writes |-> writes]

\* the records written at the end of find_datetimes
BoundWrites(source, find_start, find_end, start, end) ==
    (IF find_start
       THEN <<Written(FILE_PATH_START(source.cat_name, source.name),
                      yaml_dump("start_datetime", start, FALSE))>>
     ELSE <<>>)
    \o (IF find_end
          THEN <<Written(FILE_PATH_END(source.cat_name, source.name),
                         yaml_dump("end_datetime", end, FALSE))>>
        ELSE <<>>)

\* as OnOSError, the connection error passed on
OnOSError_Raise(source) == Failed("OSError", <<>>)

\* the except OSError branch: a warning, and (None, None)
OnOSError(source) == Found(None, None, TRUE, <<>>)

\* the branch for sources with a static address
StaticDatetimes(source, find_start, find_end) ==
    IF ~remote.up[source.name] THEN OnOSError(source)
    ELSE LET start == IF find_start THEN StrDatetime64(remote.axis[1]) ELSE None
             end == IF find_end THEN StrDatetime64(remote.axis[Len(remote.axis)]) ELSE None
         IN Found(start, end, FALSE, BoundWrites(source, find_start, find_end, start, end))

\* the branch for sources that need aggregation
AggDatetimes(source, find_start, find_end, override) ==
    Bind(CatrefsOf(source, override), LAMBDA refs :
      IF refs.status = "error" THEN refs
      ELSE Bind(IF find_start THEN AggStart(source, refs.value) ELSE Ok("str", None),
             LAMBDA start :
               IF start.status = "error" THEN Failed(start.error, refs.writes)
               ELSE Bind(IF find_end THEN AggEnd(source, refs.value) ELSE Ok("str", None),
                      LAMBDA end :
                        IF end.status = "error" THEN Failed(end.error, refs.writes)
                        ELSE Found(start.times, end.times, FALSE,
                                   refs.writes
                                     \o BoundWrites(source, find_start, find_end,
                                                    start.times, end.times)))))

find_datetimes(source, find_start_datetime, find_end_datetime, override) ==
    IF ~source.catloc
      THEN StaticDatetimes(source, find_start_datetime, find_end_datetime)
    ELSE AggDatetimes(source, find_start_datetime, find_end_datetime, override)

\* as NeedsFinding, every bound found anew
NeedsFinding_Always(override, path) == TRUE

\* a bound is looked for unless override is off and its record is fresh
NeedsFinding(override, path) == ~(~override /\ is_fresh(path))

\* what find_availability_source leaves in the metadata of a source
Availability(source, find_start, find_end, start, end, warned, writes) ==
    [status |-> "ok", name |-> source.name,
     find_start_datetime |-> find_start, find_end_datetime |-> find_end,
     start_datetime |-> start, end_datetime |-> end,
     warned |-> warned, writes |-> writes]

find_availability_source(source, override) ==
    LET start_path == FILE_PATH_START(source.cat_name, source.name)
        end_path == FILE_PATH_END(source.cat_name, source.name)
        find_start == NeedsFinding(override, start_path)
        find_end == NeedsFinding(override, end_path)
        start_read == IF find_start THEN Ok("str", None)
                      ELSE yaml_safe_load(stored[start_path], "start_datetime")
        end_read == IF find_end THEN Ok("str", None)
                    ELSE yaml_safe_load(stored[end_path], "end_datetime")
    IN IF start_read.status = "error" THEN Failed(start_read.error, <<>>)
       ELSE IF end_read.status = "error" THEN Failed(end_read.error, <<>>)
       ELSE IF find_start \/ find_end
         THEN Bind(find_datetimes(source, find_start, find_end, override), LAMBDA temp :
                IF temp.status = "error" THEN temp
                ELSE Availability(source, find_start, find_end,
                                  IF find_start THEN temp.start ELSE start_read.value,
                                  IF find_end THEN temp.end ELSE end_read.value,
                                  temp.warned, temp.writes))
       ELSE Availability(source, FALSE, FALSE, start_read.value, end_read.value,
                         FALSE, <<>>)

\* the loop of find_availability over the sources from the i-th on; done
\* holds the sources handled so far and writes the records written so far
RECURSIVE AvailabilityLoop(_, _, _, _, _)
AvailabilityLoop(sources, i, override, done, writes) ==
    IF i > Len(sources) THEN Done(done, writes)
    ELSE Bind(find_availability_source(sources[i], override), LAMBDA source :
           IF source.status = "error"
             THEN [status |-> "error", error |-> source.error, value |-> done,
                   writes |-> writes \o source.writes]
           ELSE Bind(Append(done, source), LAMBDA handled :
                  Bind(writes \o source.writes, LAMBDA written :
                    AvailabilityLoop(sources, i + 1, override, handled, written))))

\* find_availability(cat, timing, override) for a catalog of sources; timing
\* is None or the name of one source
find_availability(cat, timing, override) ==
    Bind(IF timing = None THEN cat.sources
         ELSE SelectSeq(cat.sources, LAMBDA s : s.name = timing),
      LAMBDA sources : AvailabilityLoop(sources, 1, override, <<>>, <<>>))

----------------------------------------------------------------------------
(* find_availability on a catalog with a static and an aggregating source *)

\* hours the clock of this part runs for
MaxClock == 2

\* calls of find_availability in one behaviour
MaxCalls == 2

\* the catalog references and files of the server end with this day
LastDay == <<2022, 7, 1>>

\* forecast files next to the nowcast files of the last day
TailLeads == 2

UrlBase == SubSeq(UrlPrefix, 1, Len(UrlPrefix) - 8)

Str_CatalogXml == <<"c", "a", "t", "a", "l", "o", "g">>

\* the catalog handed to find_availability: forecast has a static address,
\* nowcast is aggregated from the files of a THREDDS catalog
CBOFS ==
    [name |-> Str_CBOFS, filetype |-> Str_fields,
     sources |-> <<[cat_name |-> Str_CBOFS, name |-> Str_forecast, catloc |-> FALSE,
                    filetype |-> Str_fields],
                   [cat_name |-> Str_CBOFS, name |-> Str_nowcast, catloc |-> TRUE,
                    filetype |-> Str_fields]>>]

\* the dataset of one published file under the directory dir
Dataset(dir, f) ==
    [name |-> FormatName(f), url |-> UrlBase \o Join(dir, <<"/">>) \o <<"/">> \o FormatName(f)]

\* the nowcast files n003 and n006 of cycle 00 of one day
DayFiles(day) ==
    <<[OfsFile(day, "n", 3, 0) EXCEPT !.path = <<>>],
      [OfsFile(day, "n", 6, 0) EXCEPT !.path = <<>>]>>

\* the station file of one day, which is no field file
StationFile(day) ==
    [OfsFile(day, "n", 0, 0) EXCEPT !.path = <<>>, !.ftype = Str_stations,
                                    !.shape = "nowcast"]

\* the files of the days of one month, with forecast files of the last day
MonthFiles(y, m, days, leads) ==
    Concat(List([i \in 1..Len(days) |->
        DayFiles(<<y, m, days[i]>>) \o <<StationFile(<<y, m, days[i]>>)>>
          \o (IF <<y, m, days[i]>> = LastDay
                THEN List([l \in 1..leads |->
                        [OfsFile(LastDay, "f", l, 0) EXCEPT !.path = <<>>]])
              ELSE <<>>)]))

\* a month of the tree: its files in the month's catalog, or, with a level
\* of days, a catalog per day
MonthNode(y, m, days, leads, levels) ==
    LET dir == <<Pad(y, 4), Pad(m, 2)>>
        files == MonthFiles(y, m, days, leads)
    IN IF levels = 2
         THEN Node(Pad(m, 2), <<>>,
                   List([i \in 1..Len(files) |-> Dataset(dir, files[i])]))
       ELSE Node(Pad(m, 2),
                 List([i \in 1..Len(days) |->
                    LET here == SelectSeq(files, LAMBDA f : f.d = days[i])
                    IN Node(Pad(days[i], 2), <<>>,
                            List([k \in 1..Len(here) |->
                                Dataset(Append(dir, Pad(days[i], 2)), here[k])]))]),
                 <<>>)

\* the days of June 2022 the server still has files of: none, two days in
\* a row, a gap of more than a day, two such gaps
JuneDays == {<<>>, <<29, 30>>, <<26, 29, 30>>, <<26, 28, 30>>}

\* the THREDDS tree: the years, a link that is no year, and under 2022 the
\* months, newest first; May has lost its files
TreeOf(sc) ==
    Node(<<>>,
         <<Node(Str_CatalogXml, <<>>, <<>>),
           Node(Pad(2022, 4),
                <<MonthNode(2022, 7, <<1>>, sc.leads, sc.levels),
                  MonthNode(2022, 6, sc.june, 0, sc.levels)>>
                  \o (IF sc.may THEN <<MonthNode(2022, 5, <<>>, 0, 2)>> ELSE <<>>),
                <<>>)>>,
         <<>>)

\* a server: whether the static address answers, the time axis behind it,
\* and the THREDDS tree
Remote(up, sc) ==
    [up |-> [t \in {Str_forecast} |-> up],
     axis |-> <<Instant(2022, 6, 29, 1), Instant(2022, 7, 3, 0)>>,
     tree |-> TreeOf(sc),
     scene |-> sc]

BaseScene == [leads |-> TailLeads, levels |-> 2, june |-> <<26, 29, 30>>, may |-> TRUE]

\* the servers a behaviour may start with: the base scene, and the scenes
\* that differ from it in one respect
Remotes ==
    {Remote(u, BaseScene) : u \in BOOLEAN}
    \cup {Remote(TRUE, [BaseScene EXCEPT !.june = j]) : j \in JuneDays}
    \cup {Remote(TRUE, [BaseScene EXCEPT !.leads = 0]),
          Remote(TRUE, [BaseScene EXCEPT !.levels = 3]),
          Remote(TRUE, [BaseScene EXCEPT !.may = FALSE])}

\* the records a call on CBOFS may touch
AvailPaths ==
    UNION {{FILE_PATH_START(Str_CBOFS, t), FILE_PATH_END(Str_CBOFS, t),
            FILE_PATH_CATREFS(Str_CBOFS, t)} : t \in {Str_forecast, Str_nowcast}}

NoDoc == [entry |-> "none", value |-> <<>>, tags |-> {}]

InitAvail == /\ mode = "avail"
             /\ pc = "idle"
             /\ key = <<>>
             /\ checked = <<>>
             /\ now = 0
             /\ mtime = [p \in AvailPaths |-> NoFile]
             /\ stored = [p \in AvailPaths |-> NoDoc]
             /\ remote \in Remotes
             /\ call = [n |-> 0]
             /\ result = Pending
             /\ DecodeIdle
             /\ AggIdle

\* the records after the writes, each stamped with the clock
RECURSIVE AfterWrites(_, _)
AfterWrites(docs, writes) ==
    IF writes = <<>> THEN docs
    ELSE AfterWrites([docs EXCEPT ![Head(writes).path] = Head(writes).doc], Tail(writes))

WrittenPaths(writes) == {writes[i].path : i \in 1..Len(writes)}

FindAvailability ==
    /\ mode = "avail"
    /\ call.n < MaxCalls
    /\ \E timing \in {None, Str_forecast, Str_nowcast}, override \in BOOLEAN :
          /\ call' = [n |-> call.n + 1, timing |-> timing, override |-> override,
                      at |-> now, mtime |-> mtime, stored |-> stored]
          /\ result' = find_availability(CBOFS, timing, override)
    /\ stored' = AfterWrites(stored, result'.writes)
    /\ mtime' = [p \in AvailPaths |->
                   IF p \in WrittenPaths(result'.writes) THEN now ELSE mtime[p]]
    /\ UNCHANGED <<mode, pc, key, checked, now, remote>>
    /\ UNCHANGED decodeVars
    /\ UNCHANGED aggVars

\* an hour passes
AvailTick == /\ mode = "avail"
             /\ now < MaxClock
             /\ now' = now + 1
             /\ UNCHANGED <<mode, pc, key, checked, mtime, stored, remote, call, result>>
             /\ UNCHANGED decodeVars
             /\ UNCHANGED aggVars

NextAvail == FindAvailability \/ AvailTick

SpecAvail == InitAvail /\ [][NextAvail]_vars

\* a call has been made in this behaviour
Called == mode = "avail" /\ call.n > 0

\* the static source was among the sources of the last call
StaticAsked == Called /\ call.timing \in {None, Str_forecast}

\* C11: when the static address of a timing does not answer, find_datetimes
\* hands back (None, None) with a warning and writes no record, the timing
\* is returned with both bounds None, and find_availability goes on to the
\* timings after it
C11_ConnectionFailureIsRecoverable ==
    (StaticAsked /\ ~remote.up[Str_forecast]) =>
        /\ Len(result.value) >= 1
        /\ result.value[1].name = Str_forecast
        /\ result.value[1].start_datetime = None
        /\ result.value[1].end_datetime = None
        /\ result.value[1].warned
        /\ result.value[1].writes = <<>>
        /\ \A p \in {FILE_PATH_START(Str_CBOFS, Str_forecast),
                      FILE_PATH_END(Str_CBOFS, Str_forecast)} : mtime[p] = NoFile
        /\ (call.timing = None /\ result.status = "ok") =>
              /\ Len(result.value) = 2
              /\ result.value[2].name = Str_nowcast
        /\ (call.timing = None /\ result.status = "error") => Len(result.value) = 1

\* the static address is down, all timings are asked for, and the nowcast
\* timing after the failed one got its bounds
C11_Witness ==
    /\ StaticAsked
    /\ ~remote.up[Str_forecast]
    /\ call.timing = None
    /\ result.status = "ok"
    /\ result.value[1].warned
    /\ result.value[2].start_datetime # None
    /\ result.value[2].end_datetime # None

\* C12: the start found for the aggregating timing is, of the instants
\* decoded from the files of the earliest catalog reference that has files,
\* the first one after the most recent gap of more than a day between
\* neighbouring instants, or the earliest instant when there is no such gap
C12_StartAfterLastGap ==
    Called =>
      \A i \in 1..Len(result.value) :
        (result.value[i].name = Str_nowcast /\ result.value[i].find_start_datetime) =>
          LET sc == remote.scene
              days == IF sc.june = <<>> THEN {LastDay}
                      ELSE IF sc.levels = 3 THEN {<<2022, 6, sc.june[1]>>}
                      ELSE {<<2022, 6, sc.june[k]>> : k \in 1..Len(sc.june)}
              dates == UNION {{Instant(d[1], d[2], d[3], 0) - 3, Instant(d[1], d[2], d[3], 0)} :
                                d \in days}
                       \cup (IF sc.june = <<>>
                               THEN {Instant(2022, 7, 1, l) : l \in 1..sc.leads}
                             ELSE {})
              after == {t \in dates : \E q \in dates :
                          /\ q < t
                          /\ t - q > 24
                          /\ \A r \in dates : ~(q < r /\ r < t)}
              expected == IF after # {} THEN CHOOSE t \in after : \A u \in after : u <= t
                          ELSE CHOOSE t \in dates : \A u \in dates : t <= u
          IN result.value[i].start_datetime = StrTimestamp(expected)

\* June has files of the 26th, the 28th and the 30th in one catalog: the
\* start is the first instant after the later of the two gaps
C12_Witness ==
    /\ Called
    /\ remote.scene.june = <<26, 28, 30>>
    /\ remote.scene.levels = 2
    /\ result.status = "ok"
    /\ \E i \in 1..Len(result.value) :
          /\ result.value[i].name = Str_nowcast
          /\ result.value[i].find_start_datetime
          /\ result.value[i].start_datetime =
                <<"2", "0", "2", "2", "-", "0", "6", "-", "2", "9", " ",
                  "2", "1", ":", "0", "0", ":", "0", "0">>

\* C13: the end found for the aggregating timing is the latest instant
\* decoded from the nowcast files of the latest catalog reference, whatever
\* forecast files that reference holds
C13_EndFromNowcastOnly ==
    Called =>
      \A i \in 1..Len(result.value) :
        (result.value[i].name = Str_nowcast /\ result.value[i].find_end_datetime) =>
          result.value[i].end_datetime = StrTimestamp(Instant(2022, 7, 1, 0))

\* C14: each bound of a source is gated on its own record: it is found anew
\* exactly when override is on or the record is missing or as old as its
\* time-to-live; a bound found anew (the server answering) is in its record,
\* written at the time of the call; a bound not found anew is the one its
\* record held, and the record is as it was before the call
C14_BoundsGatedSeparately ==
    Called =>
      \A i \in 1..Len(result.value) :
        LET e == result.value[i]
            start_path == FILE_PATH_START(Str_CBOFS, e.name)
            end_path == FILE_PATH_END(Str_CBOFS, e.name)
            Kept(path, category) ==
                /\ ~call.override
                /\ call.mtime[path] # NoFile
                /\ call.at - call.mtime[path] < FRESH(e.name, category)
            Handled(path, category, entry, found, bound) ==
                /\ found <=> ~Kept(path, category)
                /\ (found /\ ~e.warned) =>
                      /\ stored[path] = [entry |-> entry, value |-> bound, tags |-> {}]
                      /\ mtime[path] = call.at
                /\ ~found =>
                      /\ bound = call.stored[path].value
                      /\ stored[path] = call.stored[path]
                      /\ mtime[path] = call.mtime[path]
        IN /\ Handled(start_path, "start", "start_datetime", e.find_start_datetime,
                      e.start_datetime)
           /\ Handled(end_path, "end", "end_datetime", e.find_end_datetime,
                      e.end_datetime)

\* a second call without override, two hours after the first: the start
\* record of the nowcast timing has run out and the end record has not
C14_Witness ==
    /\ Called
    /\ ~call.override
    /\ result.status = "ok"
    /\ \E i \in 1..Len(result.value) :
          /\ result.value[i].name = Str_nowcast
          /\ result.value[i].find_start_datetime
          /\ ~result.value[i].find_end_datetime
          /\ result.value[i].end_datetime # None
          /\ mtime[FILE_PATH_START(Str_CBOFS, Str_nowcast)] = call.at
          /\ mtime[FILE_PATH_END(Str_CBOFS, Str_nowcast)] < call.at

----------------------------------------------------------------------------
(* select_date_range: dates as the user writes them *)

\* the clock fields <<hour, minute, second>> of datetime(1970, 1, 1, 22, 22, 22)
DEFAULT == <<22, 22, 22>>

\* the date <<year, month, day>> at the head of YYYY-MM-DD[?HH:MM[:SS]]
DateIn(s) == <<ToInt(Slice(s, 0, 4)), ToInt(Slice(s, 5, 7)), ToInt(Slice(s, 8, 10))>>

\* the clock fields of YYYY-MM-DD[?HH:MM[:SS]], those not written taken from
\* default: dateutil's parse(s, default=...)
ClockIn(s, default) ==
    <<IF Len(s) >= 13 THEN ToInt(Slice(s, 11, 13)) ELSE default[1],
      IF Len(s) >= 16 THEN ToInt(Slice(s, 14, 16)) ELSE default[2],
      IF Len(s) >= 19 THEN ToInt(Slice(s, 17, 19)) ELSE default[3]>>

\* a pd.Timestamp to the second: the whole hours since 0001-01-01 and the
\* seconds into the hour
Stamp(day, clock) ==
    [h |-> Instant(day[1], day[2], day[3], clock[1]), s |-> 60 * clock[2] + clock[3]]

\* mc.astype(value, pd.Timestamp) of a string: what is not written is zero
ToTimestamp(s) == Stamp(DateIn(s), ClockIn(s, <<0, 0, 0>>))

\* a <= b on Timestamps
NotAfter(a, b) == a.h < b.h \/ (a.h = b.h /\ a.s <= b.s)

\* str(timestamp): YYYY-MM-DD HH:MM:SS
StrStamp(ts) ==
    StrDate(DateOf(ts.h)) \o <<" ">> \o Pad(ts.h % 24, 2) \o <<":">>
      \o Pad(ts.s \div 60, 2) \o <<":">> \o Pad(ts.s % 60, 2)

\* parse(input, default=DEFAULT).strftime("%H%M%S") == "222222"
NoTimeWritten(input) ==
    LET clock == ClockIn(input, DEFAULT)
    IN Pad(clock[1], 2) \o Pad(clock[2], 2) \o Pad(clock[3], 2)
         = <<"2", "2", "2", "2", "2", "2">>

\* as SelectionBounds, without the case of start_date == end_date
SelectionBounds_AsWritten(start_date_input, end_date_input) ==
    [start |-> IF NoTimeWritten(start_date_input)
                 THEN StrDate(DateOf(ToTimestamp(start_date_input).h))
               ELSE StrStamp(ToTimestamp(start_date_input)),
     end |-> IF end_date_input = None THEN None
             ELSE IF NoTimeWritten(end_date_input)
               THEN StrDate(DateOf(ToTimestamp(end_date_input).h))
             ELSE StrStamp(ToTimestamp(end_date_input))]

\* start_date_sel and end_date_sel as lines 598-626 set them
SelectionBounds(start_date_input, end_date_input) ==
    LET start_date == ToTimestamp(start_date_input)
    IN IF end_date_input # None /\ start_date = ToTimestamp(end_date_input)
         THEN [start |-> StrDate(DateOf(start_date.h)), end |-> StrDate(DateOf(start_date.h))]
       ELSE [start |-> IF NoTimeWritten(start_date_input)
                         THEN StrDate(DateOf(start_date.h))
                       ELSE StrStamp(start_date),
             end |-> IF end_date_input = None THEN None
                     ELSE IF NoTimeWritten(end_date_input)
                       THEN StrDate(DateOf(ToTimestamp(end_date_input).h))
                     ELSE StrStamp(ToTimestamp(end_date_input))]

\* the first and the last instant a selection bound admits, as pandas reads
\* a string bound of a slice: a date is the whole day, a time to the second
\* is that second
BoundFrom(sel) == Stamp(DateIn(sel), ClockIn(sel, <<0, 0, 0>>))

BoundUpto(sel) == Stamp(DateIn(sel), ClockIn(sel, <<23, 59, 59>>))

\* df[start_date_sel:end_date_sel] on the rows of a frame
SliceRows(rows, start_sel, end_sel) ==
    Bind(BoundFrom(start_sel), LAMBDA from :
      Bind(IF end_sel = None THEN from ELSE BoundUpto(end_sel), LAMBDA upto :
        SelectSeq(rows, LAMBDA r :
            /\ NotAfter(from, [h |-> r.t, s |-> 0])
            /\ end_sel = None \/ NotAfter([h |-> r.t, s |-> 0], upto))))

\* list(pd.unique(frame["filenames"]))
UniqueFiles(rows) == Dedupe(List([i \in 1..Len(rows) |-> rows[i].filenames]))

----------------------------------------------------------------------------
(* select_date_range *)

\* timestamp.date() as a day count
DayNo(ts) == ts.h \div 24

\* as EndLoop, the caller's flag kept when end_date is today
EndLoop_FlagAsPassed(end_date_input, today, use_forecast_files) ==
    IF end_date_input = None \/ DayNo(ToTimestamp(end_date_input)) > DayNo(today)
      THEN [end_date_loop |-> today, use_forecast_files |-> TRUE, open_end |-> FALSE]
    ELSE IF DayNo(ToTimestamp(end_date_input)) < DayNo(today)
      THEN IF use_forecast_files
             THEN [end_date_loop |-> ToTimestamp(end_date_input),
                   use_forecast_files |-> TRUE, open_end |-> TRUE]
           ELSE [end_date_loop |-> [ToTimestamp(end_date_input) EXCEPT !.h = @ + 24],
                 use_forecast_files |-> FALSE, open_end |-> FALSE]
    ELSE [end_date_loop |-> ToTimestamp(end_date_input),
          use_forecast_files |-> use_forecast_files, open_end |-> FALSE]

\* as EndLoop, a past end_date without the day after it
EndLoop_NoDayAfter(end_date_input, today, use_forecast_files) ==
    IF end_date_input = None \/ DayNo(ToTimestamp(end_date_input)) > DayNo(today)
      THEN [end_date_loop |-> today, use_forecast_files |-> TRUE, open_end |-> FALSE]
    ELSE IF DayNo(ToTimestamp(end_date_input)) < DayNo(today)
      THEN [end_date_loop |-> ToTimestamp(end_date_input),
            use_forecast_files |-> use_forecast_files, open_end |-> use_forecast_files]
    ELSE [end_date_loop |-> ToTimestamp(end_date_input),
          use_forecast_files |-> TRUE, open_end |-> FALSE]

\* lines 628-646: where the day loop ends, whether the last day takes the
\* forecast files, and whether end_date_sel is overwritten with None
EndLoop(end_date_input, today, use_forecast_files) ==
    IF end_date_input = None \/ DayNo(ToTimestamp(end_date_input)) > DayNo(today)
      THEN [end_date_loop |-> today, use_forecast_files |-> TRUE, open_end |-> FALSE]
    ELSE IF DayNo(ToTimestamp(end_date_input)) < DayNo(today)
      THEN IF use_forecast_files
             THEN [end_date_loop |-> ToTimestamp(end_date_input),
                   use_forecast_files |-> TRUE, open_end |-> TRUE]
           ELSE [end_date_loop |-> [ToTimestamp(end_date_input) EXCEPT !.h = @ + 24],
                 use_forecast_files |-> FALSE, open_end |-> FALSE]
    ELSE [end_date_loop |-> ToTimestamp(end_date_input),
          use_forecast_files |-> TRUE, open_end |-> FALSE]

\* as RangeWithin, the start alone compared
RangeWithin_StartOnly(source, start_date_input, end_date_input) ==
    /\ source.start_datetime # None
    /\ source.end_datetime # None
    /\ end_date_input # None
    /\ NotAfter(ToTimestamp(source.start_datetime), ToTimestamp(start_date_input))

\* user_range in timing_range, a TypeError from a bound that is None caught
RangeWithin(source, start_date_input, end_date_input) ==
    /\ source.start_datetime # None
    /\ source.end_datetime # None
    /\ end_date_input # None
    /\ NotAfter(ToTimestamp(source.start_datetime), ToTimestamp(start_date_input))
    /\ NotAfter(ToTimestamp(end_date_input), ToTimestamp(source.end_datetime))

\* as NoForecastFor, no timing refused
NoForecastFor_None(timing, use_forecast_files) == FALSE

\* line 680: the timing that has no forecast files is asked for them
NoForecastFor(timing, use_forecast_files) ==
    use_forecast_files /\ timing = Str_hindcast

\* lines 648-678: the timing to use
ChooseTiming(cat, timing, start_date_input, end_date_input) ==
    IF timing # None THEN Ok("str", timing)
    ELSE IF Len(cat.sources) = 1 THEN Ok("str", cat.sources[1].name)
    ELSE IF \E i \in 1..Len(cat.sources) : ~cat.sources[i].has_bounds
      THEN Raise("KeyError: run find_availability")
    ELSE LET fits == {i \in 1..Len(cat.sources) :
                        RangeWithin(cat.sources[i], start_date_input, end_date_input)}
         IN IF fits = {} THEN Raise("ValueError: date range does not fit")
            ELSE Ok("str", cat.sources[CHOOSE i \in fits : \A j \in fits : i <= j].name)

\* as DayRecord, one record per day whatever the flag
DayRecord_NoFlag(source, day, is_fore) ==
    FILE_PATH_AGG_FILE_LOCS(source.cat_name, source.name, day, FALSE)

\* the record of the files of one day
DayRecord(source, day, is_fore) ==
    FILE_PATH_AGG_FILE_LOCS(source.cat_name, source.name, day, is_fore)

\* lines 717-751: the files of one day, from their record or from the server
AggDay(source, catrefs, day, is_fore, override) ==
    LET fname == DayRecord(source, day, is_fore)
    IN IF ~override /\ is_fresh(fname)
         THEN LET got == yaml_safe_load(stored[fname], "agg_filelocs")
              IN IF got.status = "error" THEN Failed(got.error, <<>>)
                 ELSE Done(got.value, <<>>)
       ELSE IF catrefs = <<>> THEN Failed("IndexError", <<>>)
       ELSE IF Len(catrefs[1]) \notin {2, 3} THEN Failed("NameError", <<>>)
       ELSE LET cat_ref_to_match ==
                    IF Len(catrefs[1]) = 3
                      THEN <<Pad(day[1], 4), Pad(day[2], 2), Pad(day[3], 2)>>
                    ELSE <<Pad(day[1], 4), Pad(day[2], 2)>>
            IN IF \A i \in 1..Len(catrefs) : catrefs[i] # cat_ref_to_match
                 THEN Failed("ValueError: not in list", <<>>)
               ELSE Bind(find_filelocs(cat_ref_to_match, remote.tree, source.filetype),
                      LAMBDA filelocs :
                        IF filelocs.status = "error" THEN Failed(filelocs.error, <<>>)
                        ELSE Bind(agg_for_date(day, filelocs.times, source.filetype, is_fore),
                               LAMBDA agg :
                                 IF agg.status = "error" THEN Failed(agg.error, <<>>)
                                 ELSE Done(agg.times,
                                           <<Written(fname,
                                                     yaml_dump("agg_filelocs", agg.times,
                                                               FALSE))>>)))

\* as DayLoop, every day taking the forecast files when the range asks for them
RECURSIVE DayLoop_TailEveryDay(_, _, _, _, _, _, _)
DayLoop_TailEveryDay(source, catrefs, t, loop, override, days, out) ==
    IF ~NotAfter([h |-> t, s |-> 0], loop.end_date_loop) THEN [out EXCEPT !.days = days]
    ELSE LET is_fore == loop.use_forecast_files
         IN Bind(AggDay(source, catrefs, DateOf(t), is_fore, override), LAMBDA got :
              Bind(Append(days, [day |-> DateOf(t), is_forecast |-> is_fore]), LAMBDA seen :
                IF got.status = "error"
                  THEN [status |-> "error", error |-> got.error, value |-> out.value,
                        writes |-> out.writes, days |-> seen]
                ELSE Bind([out EXCEPT !.value = @ \o got.value,
                                      !.writes = @ \o got.writes],
                       LAMBDA sofar :
                         DayLoop_TailEveryDay(source, catrefs, t + 24, loop, override,
                                              seen, sofar))))

\* lines 706-753: the loop over pd.date_range(start_date.normalize(),
\* end_date_loop, freq="1D") from the midnight t on
RECURSIVE DayLoop(_, _, _, _, _, _, _)
DayLoop(source, catrefs, t, loop, override, days, out) ==
    IF ~NotAfter([h |-> t, s |-> 0], loop.end_date_loop) THEN [out EXCEPT !.days = days]
    ELSE LET is_fore == (t \div 24 = DayNo(loop.end_date_loop)) /\ loop.use_forecast_files
         IN Bind(AggDay(source, catrefs, DateOf(t), is_fore, override), LAMBDA got :
              Bind(Append(days, [day |-> DateOf(t), is_forecast |-> is_fore]), LAMBDA seen :
                IF got.status = "error"
                  THEN [status |-> "error", error |-> got.error, value |-> out.value,
                        writes |-> out.writes, days |-> seen]
                ELSE Bind([out EXCEPT !.value = @ \o got.value,
                                      !.writes = @ \o got.writes],
                       LAMBDA sofar :
                         DayLoop(source, catrefs, t + 24, loop, override, seen, sofar))))

\* what a call of select_date_range comes to: stage is the part of the
\* function it ended in
RangeResult(outcome, stage, timing, sel, loop, days, urlpath, writes, warned) ==
    [status |-> IF outcome = "ok" THEN "ok" ELSE "error", error |-> outcome,
     stage |-> stage, timing |-> timing,
     start_date |-> sel.start, end_date |-> sel.end,
     end_date_loop |-> loop.end_date_loop,
     use_forecast_files |-> loop.use_forecast_files,
     days |-> days, urlpath |-> urlpath, writes |-> writes, warned |-> warned]

\* lines 687-769: the files of an aggregating source
RangeFiles(source, timing, sel, loop, start_date, override, warned) ==
    Bind(CatrefsOf(source, override), LAMBDA refs :
      IF refs.status = "error"
        THEN RangeResult(refs.error, "catrefs", timing, sel, loop, <<>>, <<>>, <<>>, warned)
      ELSE Bind(DayLoop(source, refs.value, 24 * DayNo(start_date), loop, override, <<>>,
                        [status |-> "ok", value |-> <<>>,
                         writes |-> refs.writes, days |-> <<>>]),
             LAMBDA looped :
               IF looped.status = "error"
                 THEN RangeResult(looped.error, "days", timing, sel, loop, looped.days,
                                  <<>>, looped.writes, warned)
               ELSE Bind(filedates2df(looped.value), LAMBDA df :
                      IF df.status = "error"
                        THEN RangeResult(df.error, "frame", timing, sel, loop,
                                         looped.days, <<>>, looped.writes, warned)
                      ELSE Bind(SliceRows(df.times, sel.start, sel.end),
                             LAMBDA files_to_use :
                               RangeResult("ok", "done", timing, sel, loop, looped.days,
                                           UniqueFiles(files_to_use), looped.writes,
                                           warned)))))

\* select_date_range(cat, start_date, end_date, timing, use_forecast_files,
\* override) called when pd.Timestamp.today() is today
select_date_range(cat, start_date_input, end_date_input, timing, use_forecast_files, override, today) ==
    LET start_date == ToTimestamp(start_date_input)
        nothing == [start |-> None, end |-> None]
        unset == [end_date_loop |-> today, use_forecast_files |-> use_forecast_files]
    IN IF end_date_input = None /\ timing = Str_hindcast
         THEN RangeResult("KeyError: hindcast without end_date", "dates", timing, nothing,
                          unset, <<>>, <<>>, <<>>, FALSE)
       ELSE IF /\ end_date_input # None
               /\ DayNo(ToTimestamp(end_date_input)) < DayNo(start_date)
         THEN RangeResult("KeyError: start_date after end_date", "dates", timing, nothing,
                          unset, <<>>, <<>>, <<>>, FALSE)
       ELSE
         LET warned == /\ use_forecast_files
                       /\ \/ end_date_input = None
                          \/ DayNo(ToTimestamp(end_date_input)) >= DayNo(today)
         IN Bind(EndLoop(end_date_input, today, use_forecast_files), LAMBDA loop :
            Bind(SelectionBounds(start_date_input, end_date_input), LAMBDA bounds :
            Bind(IF loop.open_end THEN [bounds EXCEPT !.end = None] ELSE bounds, LAMBDA sel :
            Bind(ChooseTiming(cat, timing, start_date_input, end_date_input), LAMBDA chosen :
              IF chosen.status = "error"
                THEN RangeResult(chosen.error, "timing", timing, sel, loop, <<>>, <<>>,
                                 <<>>, warned)
              ELSE IF NoForecastFor(chosen.times, loop.use_forecast_files)
                THEN RangeResult("KeyError: hindcast without forecast files", "timing",
                                 chosen.times, sel, loop, <<>>, <<>>, <<>>, warned)
              ELSE IF \A i \in 1..Len(cat.sources) : cat.sources[i].name # chosen.times
                THEN RangeResult("KeyError", "timing", chosen.times, sel, loop, <<>>, <<>>,
                                 <<>>, warned)
              ELSE
                LET source == cat.sources[CHOOSE i \in 1..Len(cat.sources) :
                                              cat.sources[i].name = chosen.times]
                IN IF source.catloc
                     THEN RangeFiles(source, chosen.times, sel, loop, start_date, override,
                                     warned)
                   ELSE RangeResult("ok", "done", chosen.times, sel, loop, <<>>, <<>>,
                                    <<>>, warned)))))

----------------------------------------------------------------------------
(* select_date_range called on the first of July 2022, at noon *)

RangeNow == Instant(2022, 7, 1, 12)

\* a source of the CBOFS catalog; has_bounds: start_datetime and
\* end_datetime are in its metadata
Timing(name, catloc, has_bounds, start, end) ==
    [cat_name |-> Str_CBOFS, name |-> name, catloc |-> catloc, filetype |-> Str_fields,
     has_bounds |-> has_bounds, start_datetime |-> start, end_datetime |-> end]

\* the catalog as set up, with one timing or three
Unfound(names) ==
    [name |-> Str_CBOFS,
     sources |-> List([i \in 1..Len(names) |->
                    Timing(names[i], names[i] = Str_nowcast, FALSE, None, None)])]

\* the catalog as find_availability returns it; the forecast server may
\* not have answered
Availed(forecast_up) ==
    [name |-> Str_CBOFS,
     sources |->
       <<Timing(Str_forecast, FALSE, TRUE,
                IF forecast_up THEN StrDatetime64(Instant(2022, 6, 30, 0)) ELSE None,
                IF forecast_up THEN StrDatetime64(Instant(2022, 7, 3, 0)) ELSE None),
         Timing(Str_hindcast, FALSE, TRUE,
                StrTimestamp(Instant(2022, 6, 1, 0)), StrTimestamp(Instant(2022, 6, 29, 23))),
         Timing(Str_nowcast, TRUE, TRUE,
                StrTimestamp(Instant(2022, 6, 28, 21)), StrTimestamp(Instant(2022, 7, 2, 0)))>>]

Catalogs ==
    {Unfound(<<Str_nowcast>>), Unfound(<<Str_forecast, Str_hindcast, Str_nowcast>>),
     Availed(TRUE), Availed(FALSE)}

\* the files of a past day: n003 and n006 of cycle 00, n006 of cycle 12
PastDayFiles(day) ==
    <<[OfsFile(day, "n", 3, 0) EXCEPT !.path = <<>>],
      [OfsFile(day, "n", 6, 0) EXCEPT !.path = <<>>],
      [OfsFile(day, "n", 6, 12) EXCEPT !.path = <<>>]>>

\* the files of today at noon: the nowcast files of cycles 00 and 06, and of
\* the forecast of cycle 06 the hours 23:00 and 00:00 of the next day
TodayFiles ==
    <<[OfsFile(LastDay, "n", 3, 0) EXCEPT !.path = <<>>],
      [OfsFile(LastDay, "n", 6, 0) EXCEPT !.path = <<>>],
      [OfsFile(LastDay, "n", 3, 6) EXCEPT !.path = <<>>],
      [OfsFile(LastDay, "n", 6, 6) EXCEPT !.path = <<>>],
      [OfsFile(LastDay, "f", 17, 6) EXCEPT !.path = <<>>],
      [OfsFile(LastDay, "f", 18, 6) EXCEPT !.path = <<>>]>>

\* a month catalog holding the given files
MonthOf(m, files) ==
    Node(Pad(m, 2), <<>>,
         List([i \in 1..Len(files) |-> Dataset(<<Pad(2022, 4), Pad(m, 2)>>, files[i])]))

\* the server: June with its last two days, July with today
RangeTree ==
    Node(<<>>,
         <<Node(Pad(2022, 4),
                <<MonthOf(7, TodayFiles),
                  MonthOf(6, PastDayFiles(<<2022, 6, 29>>) \o PastDayFiles(<<2022, 6, 30>>))>>,
                <<>>)>>,
         <<>>)

\* what the user may write for start_date and end_date
Str_Jun29 == StrDate(<<2022, 6, 29>>)
Str_Jul01 == StrDate(LastDay)

StartDates ==
    {Str_Jun29,
     StrTimestamp(Instant(2022, 6, 30, 12)),
     Str_Jul01,
     Str_Jul01 \o <<" ", "2", "2", ":", "2", "2", ":", "2", "2">>}

EndDates ==
    {None,
     Str_Jun29,
     StrTimestamp(Instant(2022, 6, 30, 6)),
     StrTimestamp(Instant(2022, 6, 30, 12)),
     Str_Jul01,
     StrDate(<<2022, 7, 2>>)}

\* the records a call may touch
RangePaths ==
    {FILE_PATH_CATREFS(Str_CBOFS, Str_nowcast)}
    \cup {FILE_PATH_AGG_FILE_LOCS(Str_CBOFS, Str_nowcast, day, f) :
            day \in {<<2022, 6, 29>>, <<2022, 6, 30>>, LastDay}, f \in BOOLEAN}

InitRange == /\ mode = "range"
             /\ pc = "idle"
             /\ key = <<>>
             /\ checked = <<>>
             /\ now = RangeNow
             /\ mtime = [p \in RangePaths |-> NoFile]
             /\ stored = [p \in RangePaths |-> NoDoc]
             /\ remote = [tree |-> RangeTree]
             /\ call = [n |-> 0]
             /\ result = Pending
             /\ DecodeIdle
             /\ AggIdle

SelectDateRange ==
    /\ mode = "range"
    /\ call.n = 0
    /\ \E start_date \in StartDates, end_date \in EndDates,
          timing \in {None, Str_nowcast, Str_hindcast},
          use_forecast_files \in BOOLEAN, override \in BOOLEAN :
         \E cat \in (IF timing = None THEN Catalogs ELSE {Availed(TRUE)}) :
            /\ call' = [n |-> 1, cat |-> cat, start_date |-> start_date,
                        end_date |-> end_date, timing |-> timing,
                        use_forecast_files |-> use_forecast_files,
                        override |-> override, today |-> [h |-> now, s |-> 0]]
            /\ result' = select_date_range(cat, start_date, end_date, timing,
                                           use_forecast_files, override,
                                           [h |-> now, s |-> 0])
    /\ stored' = AfterWrites(stored, result'.writes)
    /\ mtime' = [p \in RangePaths |->
                   IF p \in WrittenPaths(result'.writes) THEN now ELSE mtime[p]]
    /\ UNCHANGED <<mode, pc, key, checked, now, remote>>
    /\ UNCHANGED decodeVars
    /\ UNCHANGED aggVars

NextRange == SelectDateRange

SpecRange == InitRange /\ [][NextRange]_vars

\* select_date_range was called and got past its checks of the dates
Ranged == mode = "range" /\ call.n = 1 /\ result.stage # "dates"

\* the days handled end with the given day, which alone took the forecast
\* files if tail says so
DaysEndWith(day, tail) ==
    result.days # <<>> =>
        /\ result.days[Len(result.days)] = [day |-> day, is_forecast |-> tail]
        /\ \A i \in 1..(Len(result.days) - 1) : ~result.days[i].is_forecast

\* C15: with end_date absent or on a later day than today the day loop ends
\* today, with end_date today it ends at end_date; in both cases the last
\* day takes the forecast files, whatever use_forecast_files was passed
C15_OpenOrCurrentEndTakesForecast ==
    Ranged =>
      LET today == DateOf(call.today.h)
          Later(a, b) == \/ a[1] > b[1]
                         \/ a[1] = b[1] /\ a[2] > b[2]
                         \/ a[1] = b[1] /\ a[2] = b[2] /\ a[3] > b[3]
      IN /\ (call.end_date = None \/ Later(DateIn(call.end_date), today)) =>
              /\ result.end_date_loop = call.today
              /\ result.use_forecast_files
              /\ DaysEndWith(today, TRUE)
         /\ (call.end_date # None /\ DateIn(call.end_date) = today) =>
              /\ result.end_date_loop = ToTimestamp(call.end_date)
              /\ result.use_forecast_files
              /\ DaysEndWith(today, TRUE)

\* no end_date and no forecast files asked for: the nowcast timing is read
\* from the 29th of June to today, and today takes the forecast files
C15_Witness ==
    /\ Ranged
    /\ call.end_date = None
    /\ ~call.use_forecast_files
    /\ call.start_date = Str_Jun29
    /\ result.status = "ok"
    /\ result.timing = Str_nowcast
    /\ Len(result.days) = 3
    /\ result.days[3].is_forecast
    /\ result.use_forecast_files

\* C16: with end_date on a day before today and no forecast files asked
\* for, no day takes the forecast files and the day loop ends on the day
\* after end_date; with use_forecast_files=True the day of end_date is the
\* last and takes the forecast files, and the end of the selection is None
C16_PastEnd ==
    (Ranged /\ call.end_date # None /\ DayNo(ToTimestamp(call.end_date)) < DayNo(call.today)) =>
      LET end == DateIn(call.end_date)
          after == DateOf(Instant(end[1], end[2], end[3], 0) + 24)
      IN IF call.use_forecast_files
           THEN /\ result.use_forecast_files
                /\ DateOf(result.end_date_loop.h) = end
                /\ result.end_date_loop = ToTimestamp(call.end_date)
                /\ DaysEndWith(end, TRUE)
                /\ result.end_date = None
         ELSE /\ ~result.use_forecast_files
              /\ DateOf(result.end_date_loop.h) = after
              /\ DaysEndWith(after, FALSE)
              /\ result.end_date # None

\* the forecast of a past day is asked for: the 30th of June is the last
\* day and takes the forecast files, and the selection has no end
C16_Witness ==
    /\ Ranged
    /\ call.use_forecast_files
    /\ call.start_date = Str_Jun29
    /\ call.end_date = StrTimestamp(Instant(2022, 6, 30, 12))
    /\ result.status = "ok"
    /\ Len(result.days) = 2
    /\ result.days[2] = [day |-> <<2022, 6, 30>>, is_forecast |-> TRUE]
    /\ result.end_date = None
    /\ result.urlpath # <<>>

\* C17: a call that comes to the hindcast timing, named by the caller or
\* chosen from the bounds, with end_date absent, today or later, or with
\* use_forecast_files=True, ends with an error and returns no source
C17_HindcastHasNoForecast ==
    (mode = "range" /\ call.n = 1 /\ result.timing = Str_hindcast) =>
      /\ (\/ call.end_date = None
          \/ DayNo(ToTimestamp(call.end_date)) >= DayNo(call.today)
          \/ call.use_forecast_files) => result.status = "error"
      /\ result.status = "ok" => ~result.use_forecast_files

\* no timing is named, the bounds of the hindcast timing are the first to
\* hold the 29th of June, and the forecast files are asked for
C17_Witness ==
    /\ mode = "range"
    /\ call.n = 1
    /\ call.timing = None
    /\ call.use_forecast_files
    /\ call.end_date = Str_Jun29
    /\ result.timing = Str_hindcast
    /\ result.stage = "timing"
    /\ result.status = "error"

\* C18: with no timing named, the only timing of the catalog is used; with
\* several timings and a start or end bound missing from the metadata of
\* one of them the call fails asking for find_availability; otherwise the
\* timing used is one whose bounds hold the range from start_date to
\* end_date, and the call fails when there is none
C18_TimingFromBounds ==
    (Ranged /\ call.timing = None) =>
      LET sources == call.cat.sources
          Fields(s) == DateIn(s) \o ClockIn(s, <<0, 0, 0>>)
          Leq(a, b) == \A i \in 1..6 : (\A j \in 1..(i - 1) : a[j] = b[j]) => a[i] <= b[i]
          Holds(i) == /\ sources[i].start_datetime # None
                      /\ sources[i].end_datetime # None
                      /\ call.end_date # None
                      /\ Leq(Fields(sources[i].start_datetime), Fields(call.start_date))
                      /\ Leq(Fields(call.end_date), Fields(sources[i].end_datetime))
      IN IF Len(sources) = 1 THEN result.timing = sources[1].name
         ELSE IF \E i \in 1..Len(sources) : ~sources[i].has_bounds
           THEN /\ result.status = "error"
                /\ result.error = "KeyError: run find_availability"
         ELSE IF \E i \in 1..Len(sources) : Holds(i)
           THEN \E i \in 1..Len(sources) : Holds(i) /\ result.timing = sources[i].name
         ELSE /\ result.status = "error"
              /\ result.error = "ValueError: date range does not fit"

\* the bounds of the forecast timing are None and those of the hindcast
\* timing end in June: today is read from the nowcast timing
C18_Witness ==
    /\ Ranged
    /\ call.timing = None
    /\ call.cat = Availed(FALSE)
    /\ call.start_date = Str_Jul01
    /\ call.end_date = Str_Jul01
    /\ result.status = "ok"
    /\ result.timing = Str_nowcast
    /\ result.urlpath # <<>>

\* C19: a bound is taken as a date, and widened to the whole day, exactly
\* when the user wrote no time of day; a bound written with a time of day
\* is kept to the second, and no file of an instant before such a start
\* is returned (start_date and end_date differing, the end not dropped for
\* the forecast of a past day)
C19_TimeOfDayNarrows ==
    (/\ Ranged
     /\ call.end_date = None \/ ToTimestamp(call.start_date) # ToTimestamp(call.end_date)) =>
      /\ Len(result.start_date) = 10 <=> Len(call.start_date) = 10
      /\ (call.end_date # None /\ result.end_date # None) =>
            (Len(result.end_date) = 10 <=> Len(call.end_date) = 10)
      /\ (result.status = "ok" /\ Len(call.start_date) > 10) =>
            \A i \in 1..Len(result.urlpath) :
              \A k \in 1..Len(file2dt(result.urlpath[i]).times) :
                NotAfter(ToTimestamp(call.start_date),
                         [h |-> file2dt(result.urlpath[i]).times[k], s |-> 0])

\* start_date and end_date are the same instant
SameDay == /\ Ranged
           /\ call.end_date # None
           /\ ToTimestamp(call.start_date) = ToTimestamp(call.end_date)

\* the latest instant of the files returned
LastInstant ==
    LET times == file2dt(result.urlpath[Len(result.urlpath)]).times
    IN times[Len(times)]

----------------------------------------------------------------------------
(* The cycle of the forecast tail *)

\* the token of a cycle hour as the file names carry it
CycleToken(hour) == <<".", "t">> \o Pad(hour, 2) \o <<"z", ".">>

\* the candidate URLs that carry the token of a cycle hour
TokenCount(hour) ==
    Cardinality({i \in 1..Len(strings) : Contains(strings[i], CycleToken(hour))})

\* the cycle hour of the last file returned: with the forecast tail, a file
\* of the cycle agg_for_date selected
TailCycle ==
    LET last == Files(fnames)[Len(Files(fnames))]
    IN CHOOSE k \in 1..Len(CycleHours) : Contains(last, CycleToken(CycleHours[k]))

\* C23: with the forecast tail wanted, the cycle selected is the one whose
\* label occurs most often among the cycle tokens of the candidate URLs,
\* and among the cycles tied for the highest count the latest one
C23_MostFrequentLatestCycle ==
    (Selected /\ is_forecast) =>
        \A k \in 1..Len(CycleHours) :
            \/ TokenCount(CycleHours[k]) < TokenCount(CycleHours[TailCycle])
            \/ /\ TokenCount(CycleHours[k]) = TokenCount(CycleHours[TailCycle])
               /\ k <= TailCycle

\* three nowcast cycles listed, the latest unfinished, and the forecast
\* files of the second: the second cycle has the most tokens and is taken,
\* the later third is not
C23_Witness ==
    /\ Selected /\ is_forecast
    /\ scene.nowCycles = 3 /\ scene.partial /\ scene.foreCycle = 2 /\ ~scene.extra
    /\ TokenCount(CycleHours[3]) > 0
    /\ TokenCount(CycleHours[2]) > TokenCount(CycleHours[1])
    /\ TailCycle = 2

----------------------------------------------------------------------------
(* The depth of the catalog references *)

\* the catalog references a call of find_availability wrote
CatrefsWritten ==
    {result.writes[i].doc.value :
        i \in {j \in 1..Len(result.writes) : result.writes[j].doc.entry = "catrefs"}}

\* C24: find_catrefs returns references of three labels when the first
\* (year, month) catalog has catalog references below it and of two labels
\* when it has none, every reference of the same length; the first month of
\* the tree holds the one day of July, as a catalog of its own when the tree
\* has three levels
C24_DepthFromFirstPath ==
    Called =>
        \A refs \in CatrefsWritten :
            \A i \in 1..Len(refs) : Len(refs[i]) = remote.scene.levels

----------------------------------------------------------------------------
(* The scan for the start of an aggregating timing *)

\* the aggregating timing was among the sources of the last call
AggAsked == Called /\ call.timing \in {None, Str_nowcast}

\* C30: the scan for the start goes through the catalog references in
\* ascending order and stops at the first one that has files: the start is
\* an instant of the files of June when June has files, and of July
\* otherwise; when no reference has files the call ends with an error and no
\* start is returned or written
C30_StartScanEnds ==
    Called =>
      /\ \A i \in 1..Len(result.value) :
            (result.value[i].name = Str_nowcast /\ result.value[i].find_start_datetime) =>
              /\ remote.scene.levels = 2
              /\ result.value[i].start_datetime # None
              /\ LET t == ToTimestamp(result.value[i].start_datetime).h
                     june == remote.scene.june
                 IN IF june # <<>>
                      THEN /\ Instant(2022, 6, june[1], 0) - 3 <= t
                           /\ t <= Instant(2022, 6, june[Len(june)], 0)
                    ELSE /\ Instant(2022, 7, 1, 0) - 3 <= t
                         /\ t <= Instant(2022, 7, 1, TailLeads)
      /\ (AggAsked /\ remote.scene.levels = 3) =>
            /\ result.status = "error"
            /\ call.n = 1 => result.error = "IndexError"
            /\ \A i \in 1..Len(result.value) : result.value[i].name # Str_nowcast
            /\ mtime[FILE_PATH_START(Str_CBOFS, Str_nowcast)] = NoFile

\* May has no files and June has: the scan passes the reference of May and
\* stops at June, whose earliest instant is the start
C30_Witness ==
    /\ AggAsked
    /\ remote.scene.may
    /\ remote.scene.june = <<29, 30>>
    /\ result.status = "ok"
    /\ \E i \in 1..Len(result.value) :
          /\ result.value[i].name = Str_nowcast
          /\ result.value[i].find_start_datetime
          /\ result.value[i].start_datetime = StrTimestamp(Instant(2022, 6, 28, 21))

----------------------------------------------------------------------------
(* Dates out of order *)

\* C21: whenever end_date is earlier than start_date the call fails at once
\* with the error on the order of the dates, no record written and nothing
\* asked of the server
C21_EndBeforeStartFails ==
    (/\ mode = "range"
     /\ call.n = 1
     /\ call.end_date # None
     /\ ~NotAfter(ToTimestamp(call.start_date), ToTimestamp(call.end_date))) =>
        /\ result.status = "error"
        /\ result.stage = "dates"
        /\ result.writes = <<>>


----------------------------------------------------------------------------
(* Calls that follow one another on one cache *)

\* calls in one behaviour
MaxRepeatCalls == 2

\* hours the clock of this part runs for
MaxRepeatClock == 3

\* the server after it dropped the month of June
PurgedTree ==
    Node(<<>>, <<Node(Pad(2022, 4), <<MonthOf(7, TodayFiles)>>, <<>>)>>, <<>>)

\* the server while it lists no month at all
BareTree == Node(<<>>, <<Node(Pad(2022, 4), <<>>, <<>>)>>, <<>>)

\* start_date is June 29; what the user may ask for the end of the range
RepeatEnds ==
    {[end_date |-> StrDate(<<2022, 6, 30>>), use_forecast_files |-> FALSE],
     [end_date |-> StrDate(<<2022, 6, 30>>), use_forecast_files |-> TRUE],
     [end_date |-> None, use_forecast_files |-> FALSE]}

\* the records the calls may touch
RepeatPaths ==
    RangePaths \cup {FILE_PATH_START(Str_CBOFS, Str_nowcast),
                     FILE_PATH_END(Str_CBOFS, Str_nowcast)}

InitRepeat == /\ mode = "repeat"
              /\ pc = "idle"
              /\ key = <<>>
              /\ checked = <<>>
              /\ now = RangeNow
              /\ mtime = [p \in RepeatPaths |-> NoFile]
              /\ stored = [p \in RepeatPaths |-> NoDoc]
              /\ remote = [tree |-> RangeTree]
              /\ call = [n |-> 0]
              /\ result = Pending
              /\ DecodeIdle
              /\ AggIdle

\* the cache after a call: its writes, stamped with the clock
CacheAfter ==
    /\ stored' = AfterWrites(stored, result'.writes)
    /\ mtime' = [p \in RepeatPaths |->
                   IF p \in WrittenPaths(result'.writes) THEN now ELSE mtime[p]]

\* select_date_range on the nowcast of CBOFS
RangeCall ==
    /\ mode = "repeat"
    /\ call.n < MaxRepeatCalls
    /\ \E asked \in RepeatEnds, override \in BOOLEAN :
          /\ call' = [n |-> call.n + 1, op |-> "range",
                      end_date |-> asked.end_date,
                      use_forecast_files |-> asked.use_forecast_files,
                      override |-> override,
                      at |-> now, mtime |-> mtime, stored |-> stored]
          /\ result' = select_date_range(Availed(TRUE), Str_Jun29, asked.end_date,
                                         Str_nowcast, asked.use_forecast_files,
                                         override, [h |-> now, s |-> 0])
    /\ CacheAfter
    /\ UNCHANGED <<mode, pc, key, checked, now, remote>>
    /\ UNCHANGED decodeVars
    /\ UNCHANGED aggVars

\* find_availability on the nowcast of CBOFS
BoundsCall ==
    /\ mode = "repeat"
    /\ call.n < MaxRepeatCalls
    /\ \E override \in BOOLEAN :
          /\ call' = [n |-> call.n + 1, op |-> "bounds", end_date |-> None,
                      use_forecast_files |-> FALSE, override |-> override,
                      at |-> now, mtime |-> mtime, stored |-> stored]
          /\ result' = find_availability(Availed(TRUE), Str_nowcast, override)
    /\ CacheAfter
    /\ UNCHANGED <<mode, pc, key, checked, now, remote>>
    /\ UNCHANGED decodeVars
    /\ UNCHANGED aggVars

\* between two calls the server drops June, or stops listing its months
ServerChanges ==
    /\ mode = "repeat"
    /\ call.n >= 1
    /\ remote.tree = RangeTree
    /\ \E tree \in {PurgedTree, BareTree} : remote' = [tree |-> tree]
    /\ UNCHANGED <<mode, pc, key, checked, now, mtime, stored, call, result>>
    /\ UNCHANGED decodeVars
    /\ UNCHANGED aggVars

\* an hour passes
RepeatTick ==
    /\ mode = "repeat"
    /\ now < RangeNow + MaxRepeatClock
    /\ now' = now + 1
    /\ UNCHANGED <<mode, pc, key, checked, mtime, stored, remote, call, result>>
    /\ UNCHANGED decodeVars
    /\ UNCHANGED aggVars

NextRepeat == RangeCall \/ BoundsCall \/ ServerChanges \/ RepeatTick

SpecRepeat == InitRepeat /\ [][NextRepeat]_vars


\* the latest call was select_date_range, or find_availability
RangeCalled == mode = "repeat" /\ call.n >= 1 /\ call.op = "range"

BoundsCalled == mode = "repeat" /\ call.n >= 1 /\ call.op = "bounds"

CatrefsPath == FILE_PATH_CATREFS(Str_CBOFS, Str_nowcast)

\* the record under path was fresh when the latest call began, and the call
\* did not override
WasHit(path) == ~call.override /\ IsFreshAt(path, call.at, call.mtime[path])

\* what the latest call of select_date_range returns when nothing is read
\* from the cache
Recomputed ==
    select_date_range(Availed(TRUE), Str_Jun29, call.end_date, Str_nowcast,
                      call.use_forecast_files, TRUE, [h |-> call.at, s |-> 0])

----------------------------------------------------------------------------
(* The catalog references read back from their record *)

\* C28: on an unchanged server, a call of select_date_range that reads the
\* catalog references from their fresh record returns the file list a call
\* that walks the tree returns
C28_CatrefsRoundTrip ==
    (RangeCalled /\ WasHit(CatrefsPath) /\ remote.tree = RangeTree) =>
        /\ result.status = "ok"
        /\ result.urlpath = Recomputed.urlpath


----------------------------------------------------------------------------
(* The key of the record of a day *)

RepeatDays == {<<2022, 6, 29>>, <<2022, 6, 30>>, LastDay}

\* the record of a day of the nowcast of CBOFS, by its name
DayPath(day, is_fore) == FILE_PATH_AGG_FILE_LOCS(Str_CBOFS, Str_nowcast, day, is_fore)

\* the address of a forecast file
IsForecastUrl(url) == Contains(url, <<".", "f", "0">>)

HoldsForecast(urls) == \E i \in 1..Len(urls) : IsForecastUrl(urls[i])

----------------------------------------------------------------------------
(* The loop over the days of a range *)

\* the latest call of select_date_range got to its loop over the days
Looped == RangeCalled /\ result.stage \in {"days", "frame", "done"}

\* the days from June 29 to the day the loop ends with
LoopDays ==
    LET first == DayNo(ToTimestamp(Str_Jun29))
    IN List([k \in 1..(DayNo(result.end_date_loop) - first + 1) |->
               DateOf(24 * (first + k - 1))])

\* the days whose list the loop got: all it came to but the one it failed on
Got == IF result.status = "ok" THEN Len(result.days) ELSE Len(result.days) - 1

HandledPath(k) == DayPath(result.days[k].day, result.days[k].is_forecast)

\* the lists of the first k days as the cache holds them
RECURSIVE StoredLists(_)
StoredLists(k) ==
    IF k = 0 THEN <<>> ELSE StoredLists(k - 1) \o stored[HandledPath(k)].value

\* the files of the range as the records of its days give them
FromRecords ==
    Bind(filedates2df(StoredLists(Len(result.days))), LAMBDA df :
      UniqueFiles(SliceRows(df.times, result.start_date, result.end_date)))

\* C25: a call of select_date_range on an aggregating timing that gets to
\* its loop handles the days from the day of start_date to the day the loop
\* ends with, once each and in this order, up to the day it fails on if it
\* fails; only the last day of the loop takes the forecast tail, and only
\* when the range uses forecast files; a day whose record was fresh, override
\* off, leaves its record as it was, any other day whose list is got has
\* its record written at the time of the call; and the files returned are
\* those of the records of the days
C25_DayLoop ==
    Looped =>
        /\ Len(result.days) \in 1..Len(LoopDays)
        /\ result.status = "ok" => Len(result.days) = Len(LoopDays)
        /\ \A k \in 1..Len(result.days) :
              /\ result.days[k].day = LoopDays[k]
              /\ result.days[k].is_forecast
                   = (k = Len(LoopDays) /\ result.use_forecast_files)
        /\ \A k \in 1..Got :
              IF WasHit(HandledPath(k))
                THEN /\ HandledPath(k) \notin WrittenPaths(result.writes)
                     /\ stored[HandledPath(k)] = call.stored[HandledPath(k)]
                     /\ mtime[HandledPath(k)] = call.mtime[HandledPath(k)]
              ELSE /\ HandledPath(k) \in WrittenPaths(result.writes)
                   /\ stored[HandledPath(k)].entry = "agg_filelocs"
                   /\ mtime[HandledPath(k)] = call.at
        /\ result.status = "ok" => result.urlpath = FromRecords

\* the second call, after the server dropped June: the days of June come
\* from their fresh records, today is listed anew with the forecast tail
C25_Witness ==
    /\ Looped
    /\ call.n = 2
    /\ result.status = "ok"
    /\ remote.tree = PurgedTree
    /\ Len(result.days) = 3
    /\ WasHit(DayPath(<<2022, 6, 29>>, FALSE))
    /\ WasHit(DayPath(<<2022, 6, 30>>, FALSE))
    /\ DayPath(LastDay, TRUE) \in WrittenPaths(result.writes)
    /\ HoldsForecast(result.urlpath)


----------------------------------------------------------------------------
(* A record whose recomputation fails *)

\* the latest call ended in an error
Erred == mode = "repeat" /\ call.n >= 1 /\ result.status = "error"

\* the records the latest call set out to recompute and failed on: the
\* references when the walk of the server failed, the day the loop ended
\* on, and for find_availability the two bounds
FailedPaths ==
    (IF /\ ~WasHit(CatrefsPath)
        /\ remote.tree = BareTree
        /\ call.op = "bounds" \/ result.stage = "catrefs"
       THEN {CatrefsPath} ELSE {})
    \cup (IF call.op = "range" /\ result.stage = "days"
            THEN {HandledPath(Len(result.days))} \ {p \in RepeatPaths : WasHit(p)}
          ELSE {})
    \cup (IF call.op = "bounds"
            THEN {p \in {FILE_PATH_START(Str_CBOFS, Str_nowcast),
                         FILE_PATH_END(Str_CBOFS, Str_nowcast)} : ~WasHit(p)}
          ELSE {})

\* C27: when a call fails while it recomputes a record (the references, the
\* list of a day, the start or the end), the record keeps the payload and
\* the write time it had before the call
C27_FailureKeepsRecord ==
    Erred =>
        \A p \in FailedPaths : /\ stored[p] = call.stored[p]
                               /\ mtime[p] = call.mtime[p]

\* the second call overrides and fails on a record the first call wrote: on
\* the day of June after the server dropped June, or on the references
\* when the server lists nothing
C27_Witness ==
    /\ Erred
    /\ call.n = 2
    /\ call.override
    /\ \E p \in FailedPaths : /\ call.mtime[p] # NoFile
                              /\ stored[p].value # <<>>
                              /\ mtime[p] < call.at


----------------------------------------------------------------------------
(* Two calls of select_date_range at work on one cache *)

Procs == {1, 2}

\* the aggregated source both calls ask for
NowcastSource == SelectSeq(Availed(TRUE).sources, LAMBDA s : s.name = Str_nowcast)[1]

\* the day each call asks for, as start_date and as end_date
AskedDays == [p \in Procs |-> IF p = 1 THEN {<<2022, 6, 29>>}
                              ELSE {<<2022, 6, 30>>, LastDay}]

\* the cache an earlier call left an hour ago: the references are stale by
\* now, the lists of the days are fresh
WarmWrites ==
    select_date_range(Availed(TRUE), Str_Jun29, StrDate(<<2022, 6, 30>>), Str_nowcast,
                      FALSE, TRUE, [h |-> RangeNow - 1, s |-> 0]).writes

\* a call before it began
NotCalled == [k |-> 0]

InitShared == /\ mode = "shared"
              /\ pc = [p \in Procs |-> "start"]
              /\ key = <<>>
              /\ checked = <<>>
              /\ now = RangeNow
              /\ remote = [tree |-> RangeTree]
              /\ \E warm \in {<<>>, WarmWrites} :
                    /\ mtime = [path \in RangePaths |->
                                  IF path \in WrittenPaths(warm)
                                    THEN RangeNow - 1 ELSE NoFile]
                    /\ stored = AfterWrites([path \in RangePaths |-> NoDoc], warm)
              /\ call = [p \in Procs |-> NotCalled]
              /\ result = [p \in Procs |-> Pending]
              /\ DecodeIdle
              /\ AggIdle

\* lines 708-715: the days of the loop, each with its flag
PlanDays(start_date, loop) ==
    LET first == DayNo(start_date)
        last == DayNo(loop.end_date_loop)
    IN List([k \in 1..(last - first + 1) |->
               [day |-> DateOf(24 * (first + k - 1)),
                is_forecast |-> (first + k - 1 = last) /\ loop.use_forecast_files]])

\* the record a call is at: the references first, then the days of its loop
PathAt(rec) ==
    IF rec.k = 0 THEN FILE_PATH_CATREFS(NowcastSource.cat_name, NowcastSource.name)
    ELSE DayRecord(NowcastSource, rec.plan[rec.k].day, rec.plan[rec.k].is_forecast)

EntryAt(rec) == IF rec.k = 0 THEN "catrefs" ELSE "agg_filelocs"

\* process p has the record under path open for writing
Writing(p, path) == pc[p] = "dump" /\ PathAt(call[p]) = path

\* as MayOpen, a record that another process writes is not opened
MayOpen_Exclusive(p, path) == \A q \in Procs \ {p} : ~Writing(q, path)

\* open(path, "r") and open(path, "w"): no lock is taken, no handle of
\* another process is waited for
MayOpen(p, path) == TRUE

\* one step of process p
Step(p, label, rec, res) ==
    /\ pc' = [pc EXCEPT ![p] = label]
    /\ call' = [call EXCEPT ![p] = rec]
    /\ result' = [result EXCEPT ![p] = res]

\* lines 756-769: the frame of the files of the days, sliced
Finish(rec) ==
    Bind(filedates2df(rec.lists), LAMBDA df :
      IF df.status = "error" THEN [status |-> "error", error |-> df.error, urlpath |-> <<>>]
      ELSE [status |-> "ok", error |-> "ok",
            urlpath |-> UniqueFiles(SliceRows(df.times, rec.sel.start, rec.sel.end))])

\* with the record at hand, on to the next day, or out of the loop
Onward(p, rec) ==
    IF rec.k < Len(rec.plan) THEN Step(p, "check", [rec EXCEPT !.k = @ + 1], result[p])
    ELSE \E res \in {Finish(rec)} : Step(p, "done", rec, res)

\* lines 573-646: the call begins, and sets the bounds and the days of its loop
Begin(p) ==
    /\ mode = "shared"
    /\ pc[p] = "start"
    /\ \E day \in AskedDays[p], override \in BOOLEAN :
         \E loop \in {EndLoop(StrDate(day), [h |-> now, s |-> 0], FALSE)},
            bounds \in {SelectionBounds(StrDate(day), StrDate(day))} :
            Step(p, "check",
                 [k |-> 0, day |-> day, override |-> override,
                  plan |-> PlanDays(ToTimestamp(StrDate(day)), loop),
                  sel |-> IF loop.open_end THEN [bounds EXCEPT !.end = None] ELSE bounds,
                  catrefs |-> <<>>, lists |-> <<>>, doc |-> NoDoc, torn |-> FALSE],
                 result[p])
    /\ UNCHANGED <<mode, key, checked, now, mtime, stored, remote>>
    /\ UNCHANGED decodeVars
    /\ UNCHANGED aggVars

\* lines 691 and 721: if not override and is_fresh(record)
Check(p) ==
    /\ mode = "shared"
    /\ pc[p] = "check"
    /\ Step(p, IF ~call[p].override /\ is_fresh(PathAt(call[p])) THEN "read" ELSE "compute",
            call[p], result[p])
    /\ UNCHANGED <<mode, key, checked, now, mtime, stored, remote>>
    /\ UNCHANGED decodeVars
    /\ UNCHANGED aggVars

\* lines 693-696 and 722-723: the record opened and loaded as it stands
Read(p) ==
    /\ mode = "shared"
    /\ pc[p] = "read"
    /\ MayOpen(p, PathAt(call[p]))
    /\ \E got \in {yaml_safe_load(stored[PathAt(call[p])], EntryAt(call[p]))},
          torn \in {\E q \in Procs \ {p} : Writing(q, PathAt(call[p]))} :
         IF got.status = "error"
           THEN Step(p, "done", [call[p] EXCEPT !.torn = torn],
                     [status |-> "error", error |-> got.error, urlpath |-> <<>>])
         ELSE IF call[p].k = 0
           THEN Onward(p, [call[p] EXCEPT !.catrefs = got.value, !.torn = torn])
         ELSE Onward(p, [call[p] EXCEPT !.lists = @ \o got.value, !.torn = @ \/ torn])
    /\ UNCHANGED <<mode, key, checked, now, mtime, stored, remote>>
    /\ UNCHANGED decodeVars
    /\ UNCHANGED aggVars

\* lines 698-699 and 725-743: the references, or the files of the day, from
\* the server
Compute(p) ==
    /\ mode = "shared"
    /\ pc[p] = "compute"
    /\ \E got \in {IF call[p].k = 0 THEN CatrefsOf(NowcastSource, TRUE)
                   ELSE AggDay(NowcastSource, call[p].catrefs,
                               call[p].plan[call[p].k].day,
                               call[p].plan[call[p].k].is_forecast, TRUE)} :
         IF got.status = "error"
           THEN Step(p, "done", call[p],
                     [status |-> "error", error |-> got.error, urlpath |-> <<>>])
         ELSE IF call[p].k = 0
           THEN Step(p, "open", [call[p] EXCEPT !.catrefs = got.value,
                                                !.doc = got.writes[1].doc], result[p])
         ELSE Step(p, "open", [call[p] EXCEPT !.lists = @ \o got.value,
                                              !.doc = got.writes[1].doc], result[p])
    /\ UNCHANGED <<mode, key, checked, now, mtime, stored, remote>>
    /\ UNCHANGED decodeVars
    /\ UNCHANGED aggVars

\* lines 700-702 and 746: open(record, "w") leaves the record empty
Open(p) ==
    /\ mode = "shared"
    /\ pc[p] = "open"
    /\ MayOpen(p, PathAt(call[p]))
    /\ stored' = [stored EXCEPT ![PathAt(call[p])] = NoDoc]
    /\ mtime' = [mtime EXCEPT ![PathAt(call[p])] = now]
    /\ Step(p, "dump", call[p], result[p])
    /\ UNCHANGED <<mode, key, checked, now, remote>>
    /\ UNCHANGED decodeVars
    /\ UNCHANGED aggVars

\* lines 703-704 and 747-751: yaml.dump writes the payload and the record
\* is closed
Dump(p) ==
    /\ mode = "shared"
    /\ pc[p] = "dump"
    /\ stored' = [stored EXCEPT ![PathAt(call[p])] = call[p].doc]
    /\ mtime' = [mtime EXCEPT ![PathAt(call[p])] = now]
    /\ Onward(p, call[p])
    /\ UNCHANGED <<mode, key, checked, now, remote>>
    /\ UNCHANGED decodeVars
    /\ UNCHANGED aggVars

NextShared ==
    \E p \in Procs : Begin(p) \/ Check(p) \/ Read(p) \/ Compute(p) \/ Open(p) \/ Dump(p)

SpecShared == InitShared /\ [][NextShared]_vars


\* both calls began
BothCalled == mode = "shared" /\ \A p \in Procs : pc[p] # "start"

\* the days a call handles
Scope(p) == {call[p].plan[k].day : k \in 1..Len(call[p].plan)}

----------------------------------------------------------------------------
(* Writers of one record *)

\* C22: two calls at work at the same time on the same model and timing
\* whose days differ never have the same record open for writing
C22_NoSharedWriter ==
    (BothCalled /\ Scope(1) \cap Scope(2) = {}) =>
        \A path \in RangePaths : ~(Writing(1, path) /\ Writing(2, path))


----------------------------------------------------------------------------
(* A record read while it is written *)

\* process p is at an open() that it may not take
Waits(p) == pc[p] \in {"read", "open"} /\ ~MayOpen(p, PathAt(call[p]))

\* C26: nothing keeps a reader from a record that is being overwritten: a
\* call that found a record fresh never waits before it reads it, and a
\* call that computed a payload never waits before it opens the record,
\* whatever the other call is doing; what the reader loads is the record
\* as it stands, and a TypeError comes from no record but one that was
\* open for writing
C26_ReadDuringOverwrite ==
    mode = "shared" =>
        \A p \in Procs :
            /\ ~Waits(p)
            /\ (pc[p] = "done" /\ result[p].status = "error"
                               /\ result[p].error = "TypeError") => call[p].torn

\* the list of June 30 was fresh when the reader checked it, the other call
\* opened it for writing, and the reader loaded the empty record
C26_Witness ==
    /\ mode = "shared"
    /\ \E p \in Procs :
          /\ pc[p] = "done"
          /\ call[p].k >= 1
          /\ ~call[p].override
          /\ call[p].torn
          /\ result[p].error = "TypeError"
          /\ Writing(3 - p, PathAt(call[p]))
          /\ stored[PathAt(call[p])] = NoDoc

====
